---------------------------- MODULE Spec2Model ----------------------------
(***************************************************************************)
(* Child identity and duplicate prevention of the creche app.              *)
(*                                                                         *)
(* Strings are sequences of code points; a code point is written as a      *)
(* one-character string, or as "U+XXXX" when it is not ASCII.              *)
(* The document store is the hosted store the code calls: a map from       *)
(* document id to document, a point read, and an optimistic transaction    *)
(* (reads record the version they saw, the commit is applied atomically    *)
(* iff every read document is still at that version, and a conflicting     *)
(* commit makes the SDK run the transaction function again).               *)
(***************************************************************************)
EXTENDS Integers, Sequences, FiniteSets, TLC

(***************************************************************************)
(* Bounds of the model.                                                    *)
(***************************************************************************)
NumCallers == 2
\* the number of calls all callers make together
MaxCalls == 3
\* the number of changes made to the fields of the forms
MaxEdits == 4

\* a caller is a device: a program that calls the service, or an
\* AddChildScreen, whose duplicate check runs beside its submission
Callers == 1..NumCallers
CheckSlot(c) == NumCallers + c
Slots == 1..(2 * NumCallers)

(***************************************************************************)
(* Code points.                                                            *)
(***************************************************************************)
LowerLetters == <<"a","b","c","d","e","f","g","h","i","j","k","l","m",
                  "n","o","p","q","r","s","t","u","v","w","x","y","z">>
UpperLetters == <<"A","B","C","D","E","F","G","H","I","J","K","L","M",
                  "N","O","P","Q","R","S","T","U","V","W","X","Y","Z">>
Digits == {"0","1","2","3","4","5","6","7","8","9"}
Range(s) == {s[i] : i \in DOMAIN s}
LowerLetterSet == Range(LowerLetters)
UpperLetterSet == Range(UpperLetters)
\* JavaScript's white space, as far as the inputs of the model use it
WhiteSpace == {" ", "\t"}
\* U+0300..U+036f, the combining diacritical marks
CombiningMarks == {"U+0301", "U+0308"}
\* precomposed letters: <<upper case, lower case, upper base, lower base, mark>>
Precomposed == {<<"U+00C9", "U+00E9", "E", "e", "U+0301">>,
                <<"U+00CB", "U+00EB", "E", "e", "U+0308">>}

\* String.prototype.toLowerCase, one code point
LowerChar(ch) ==
  IF ch \in UpperLetterSet
    THEN LowerLetters[CHOOSE i \in DOMAIN UpperLetters : UpperLetters[i] = ch]
    ELSE IF \E p \in Precomposed : p[1] = ch
      THEN (CHOOSE p \in Precomposed : p[1] = ch)[2]
      ELSE ch

\* String.prototype.normalize("NFD"), one code point
DecomposeChar(ch) ==
  IF \E p \in Precomposed : p[2] = ch
    THEN LET p == CHOOSE q \in Precomposed : q[2] = ch IN <<p[4], p[5]>>
    ELSE IF \E p \in Precomposed : p[1] = ch
      THEN LET p == CHOOSE q \in Precomposed : q[1] = ch IN <<p[3], p[5]>>
      ELSE <<ch>>

RECURSIVE FlatMap(_, _)
FlatMap(F(_), s) == IF s = <<>> THEN <<>> ELSE F(Head(s)) \o FlatMap(F, Tail(s))

RECURSIVE Filter(_, _)
Filter(Keep(_), s) ==
  IF s = <<>> THEN <<>>
  ELSE IF Keep(Head(s)) THEN <<Head(s)>> \o Filter(Keep, Tail(s))
  ELSE Filter(Keep, Tail(s))

RECURSIVE DropWhile(_, _)
DropWhile(Drop(_), s) ==
  IF s # <<>> /\ Drop(Head(s)) THEN DropWhile(Drop, Tail(s)) ELSE s

Reverse(s) == [i \in 1..Len(s) |-> s[Len(s) + 1 - i]]

DropWhileEnd(Drop(_), s) == Reverse(DropWhile(Drop, Reverse(s)))

\* .trim()
Trim(s) ==
  LET IsWs(ch) == ch \in WhiteSpace IN DropWhileEnd(IsWs, DropWhile(IsWs, s))

\* a name left in the case it came in
KeepCase(s) == s

\* .toLowerCase()
ToLowerCase(s) == [i \in 1..Len(s) |-> LowerChar(s[i])]

\* .normalize("NFD")
NormalizeNFD(s) == FlatMap(DecomposeChar, s)

\* .replace(/[\u0300-\u036f]/g, "")
StripMarks(s) == LET Keep(ch) == ch \notin CombiningMarks IN Filter(Keep, s)

\* .replace(/[^a-z0-9\s-]/g, "")
StripDisallowed(s) ==
  LET Keep(ch) == \/ ch \in LowerLetterSet
                  \/ ch \in Digits
                  \/ ch \in WhiteSpace
                  \/ ch = "-"
  IN Filter(Keep, s)

\* runs of spaces and hyphens left as they are
KeepSeparators(s) == s

\* .replace(/[\s-]+/g, "-")
RECURSIVE CollapseSeparators(_)
CollapseSeparators(s) ==
  LET IsSep(ch) == ch \in WhiteSpace \/ ch = "-" IN
  IF s = <<>> THEN <<>>
  ELSE IF IsSep(Head(s)) THEN <<"-">> \o CollapseSeparators(DropWhile(IsSep, s))
  ELSE <<Head(s)>> \o CollapseSeparators(Tail(s))

\* hyphens left at the ends
KeepHyphens(s) == s

\* .replace(/^-+|-+$/g, "")
StripHyphens(s) ==
  LET IsHyphen(ch) == ch = "-" IN DropWhileEnd(IsHyphen, DropWhile(IsHyphen, s))

\* the last two replacements in the other order
normalizeNameHyphensFirst(name) ==
  CollapseSeparators(StripHyphens(StripDisallowed(StripMarks(
    NormalizeNFD(ToLowerCase(Trim(name)))))))

normalizeName(name) ==
  StripHyphens(CollapseSeparators(StripDisallowed(StripMarks(
    NormalizeNFD(ToLowerCase(Trim(name)))))))

\* childDocId without the normalization of the name
childDocIdOfRawName(parentId, name, dob) ==
  parentId \o <<"_","_">> \o name \o <<"_","_">> \o dob

\* childDocId without the date of birth
childDocIdWithoutDob(parentId, name, dob) ==
  parentId \o <<"_","_">> \o normalizeName(name) \o <<"_","_">>

\* childDocId without the separators
childDocIdUnseparated(parentId, name, dob) ==
  parentId \o normalizeName(name) \o dob

childDocId(parentId, name, dob) ==
  parentId \o <<"_","_">> \o normalizeName(name) \o <<"_","_">> \o dob

(***************************************************************************)
(* The inputs the callers draw from.                                       *)
(***************************************************************************)
P1 == <<"P","1">>
P2 == <<"P","2">>
ParentIds == {P1, P2}

JeanLucHyphen == <<"J","e","a","n","-","L","u","c">>
JeanLucSpace == <<"J","e","a","n"," ","L","u","c">>
ZoeAccent == <<" ","Z","o","U+00E9">>
Names == {JeanLucHyphen, JeanLucSpace, ZoeAccent}

Dob2020 == <<"2","0","2","0","-","0","5","-","1","5">>
Dob2021 == <<"2","0","2","1","-","0","5","-","1","5">>
Dobs == {Dob2020, Dob2021}

Nuts == <<"n","u","t","s">>

Child(parentId, name, dob, allergies) ==
  [parentId |-> parentId, name |-> name, dateOfBirth |-> dob,
   allergies |-> allergies]

\* CreateChildInput, with the default of allergies applied: one tuple in two
\* spellings and with two allergy lists, and the same parent and name with
\* another date of birth
CreateChildInput ==
  {Child(P1, JeanLucHyphen, Dob2020, <<>>),
   Child(P1, JeanLucSpace, Dob2020, <<Nuts>>),
   Child(P1, JeanLucHyphen, Dob2021, <<>>)}

TupleOf(i) == <<i.parentId, i.name, i.dateOfBirth>>
Tuples == {TupleOf(i) : i \in CreateChildInput}

\* one child of P1 in three spellings, and the id they are stored under
JeanLucPadded ==
  <<" "," ","J","e","a","n"," "," "," ","L","u","c"," "," ">>
JeanLucSpellings == {JeanLucHyphen, JeanLucSpace, JeanLucPadded}
SpellingInput == {Child(P1, n, Dob2020, <<>>) : n \in JeanLucSpellings}
SpellingTuples == {TupleOf(i) : i \in SpellingInput}
JeanLucKey ==
  <<"P","1","_","_","j","e","a","n","-","l","u","c","_","_",
    "2","0","2","0","-","0","5","-","1","5">>

\* what is typed into the form of an AddChildScreen
BadDob == <<"1","5","/","5">>
ChildNameTexts == {JeanLucHyphen, JeanLucSpace}
DateOfBirthTexts == {Dob2020, BadDob}
AllergiesTexts == {<<" ">> \o Nuts \o <<",">>}
\* the parents the admin's screen lists
Parents == {P1}

\* normalizeName and childDocId on the strings of the model, evaluated once
Slug == [n \in Names \cup JeanLucSpellings
                \cup {Trim(m) : m \in Names \cup JeanLucSpellings}
          |-> normalizeName(n)]
DocId == [t \in Tuples \cup SpellingTuples |-> childDocId(t[1], t[2], t[3])]

NoInput == [parentId |-> <<>>, name |-> <<>>, dateOfBirth |-> <<>>, allergies |-> <<>>]

(***************************************************************************)
(* Errors: the Error the transaction function throws, and the errors of    *)
(* the store (FirebaseError codes).                                        *)
(***************************************************************************)
AlreadyExists ==
  "A child with this name and date of birth already exists for this parent."
StoreErrors == {"unavailable", "permission-denied"}

NoResult == [kind |-> "none", value |-> "none"]
Returned(v) == [kind |-> "returned", value |-> v]
Threw(e) == [kind |-> "threw", value |-> e]

(***************************************************************************)
(* State.                                                                  *)
(*   children   the "children" collection: document id -> document         *)
(*   clock      the store's time, the value of serverTimestamp()           *)
(*   pc         where each caller is: "idle", or in addChildUnique         *)
(*              ("txGet", "txBody", "txCommit"), or in checkChildExists    *)
(*              ("exGet")                                                  *)
(*   op         the call a caller is in                                    *)
(*   input      the arguments of that call                                 *)
(*   docId      the document id that call computed                         *)
(*   snap       what transaction.get returned: existence and version       *)
(*   attempts   how often the SDK has started the transaction function     *)
(*   calls      the number of calls made so far                            *)
(* History, kept for stating the properties:                               *)
(*   hist       of the call a caller is in: whether the store held a       *)
(*              record of its tuple when it started, and whether another   *)
(*              addChildUnique on the same document id ran during it       *)
(*   last       the call that finished last: its caller, arguments,        *)
(*              result and history                                         *)
(*   tally      per document id, the addChildUnique calls started, and     *)
(*              how many returned the id, threw AlreadyExists, or failed   *)
(*              with an error of the store                                 *)
(*   created    per document an add-child entry point stored (addChild,    *)
(*              addChildUnique): the parentId, name and dateOfBirth it     *)
(*              was called with                                            *)
(***************************************************************************)
VARIABLES children, clock, pc, op, input, docId, snap, attempts, calls,
          hist, last, tally, created

(***************************************************************************)
(* State of an AddChildScreen (useState), per caller.                      *)
(*   childName, dateOfBirth, allergiesInput, selectedParentId              *)
(*              the fields of the form                                     *)
(*   isDuplicate, checkingDuplicate, submitting, errors                    *)
(*              errors is the set of the fields whose message is not ""    *)
(*   timer      the debounce timer of the duplicate check is set           *)
(*   edits      the number of changes made to the fields so far            *)
(* History: advice is the tuple the last finished duplicate check was      *)
(* about, and whether it read the store and found no document.             *)
(***************************************************************************)
VARIABLES childName, dateOfBirth, allergiesInput, selectedParentId,
          isDuplicate, checkingDuplicate, submitting, errors, timer, edits,
          advice

(***************************************************************************)
(* A call of normalizeName and childDocId by themselves.                   *)
(*   keyInput   the arguments: parentId, name, dob                         *)
(*   keyOutput  what the functions returned for them: normalized is        *)
(*              normalizeName(name), again is normalizeName of that, and   *)
(*              docId is childDocId(parentId, name, dob)                   *)
(***************************************************************************)
VARIABLES keyInput, keyOutput

(***************************************************************************)
(* State of App (useState) and of the login attempts.                      *)
(*   app        mode, userName, userRole, userId                           *)
(*   logins     per login attempt: where onLogin and handleLogin are       *)
(*              (pc), the arguments, the uid signed in, the user document  *)
(*              read, what handleLogin returned, the state of the promise  *)
(*              of registerForPushNotifications, and whether the           *)
(*              LoginScreen that started the attempt is still mounted      *)
(*   users      the "users" collection: uid -> document                    *)
(***************************************************************************)
VARIABLES app, logins, users

(***************************************************************************)
(* Self-registration (handleRegister).                                     *)
(*   auth       the accounts created by registration: email -> uid,        *)
(*              password, displayName                                      *)
(*   registers  per registration attempt: where onRegister and             *)
(*              handleRegister are (pc), the arguments, the uid created,   *)
(*              what handleRegister returned, and whether the              *)
(*              RegisterScreen that started it is still mounted            *)
(***************************************************************************)
VARIABLES auth, registers

(***************************************************************************)
(* AttendanceScreen and the "attendance" collection.                       *)
(*   attendance         the collection: document id -> document            *)
(*   attendanceRecords  the local state: childId -> childName, status,     *)
(*                      timestamp                                          *)
(*   loading            fetchChildren has not finished                     *)
(*   today              the index of the current date in Dates             *)
(*   writes             the setDoc calls not yet settled, in the order     *)
(*                      they were made                                     *)
(*   markCalls          the number of markAttendance calls so far          *)
(* History: marks holds, per child and date marked in this session, the    *)
(* status of the last call, and whether a write for them was rejected.     *)
(***************************************************************************)
VARIABLES attendance, attendanceRecords, loading, today, writes, markCalls,
          marks

(***************************************************************************)
(* A caller of sendPushNotification.                                       *)
(*   send       per call: where it is (pc), the token, whether it sent a   *)
(*              request, the response of the relay, and what the call      *)
(*              returned or threw                                          *)
(*   sends      the number of calls so far                                 *)
(*   requests   the number of requests sent to the relay so far            *)
(***************************************************************************)
VARIABLES send, sends, requests

(***************************************************************************)
(* A call of registerForPushNotifications by itself.                       *)
(*   pushReg    where the call is (pc), the number of calls so far, the    *)
(*              userId, what the device, the permissions and the           *)
(*              configuration answered, the number of permission           *)
(*              requests, whether a token was fetched and a write to the   *)
(*              store was made, the token, and what the call returned      *)
(***************************************************************************)
VARIABLES pushReg

(***************************************************************************)
(* A second call of normalizeName and childDocId, to compare with the      *)
(* first.                                                                  *)
(*   otherInput   its arguments: parentId, name, dob                       *)
(*   otherOutput  what the functions returned for them                     *)
(***************************************************************************)
VARIABLES otherInput, otherOutput

storeVars == <<children, clock>>
serviceVars == <<children, clock, pc, op, input, docId, snap, attempts, calls,
                 hist, last, tally>>
formVars == <<childName, dateOfBirth, allergiesInput, selectedParentId>>
screenVars == <<childName, dateOfBirth, allergiesInput, selectedParentId,
                isDuplicate, checkingDuplicate, submitting, errors, timer,
                edits, advice>>
keyVars == <<keyInput, keyOutput>>
appVars == <<app, logins, users>>
registerVars == <<auth, registers>>
attendanceVars == <<attendance, attendanceRecords, loading, today, writes,
                    markCalls, marks>>
sendVars == <<send, sends, requests>>
pairVars == <<otherInput, otherOutput>>
otherVars == <<registerVars, attendanceVars, sendVars, pushReg, pairVars>>
notServiceVars == <<screenVars, keyVars, appVars, created, otherVars>>
notScreenVars == <<keyVars, appVars, created, otherVars>>
notKeyVars == <<serviceVars, screenVars, appVars, created, otherVars>>
notStoreVars == <<screenVars, keyVars, appVars, otherVars>>
vars == <<children, clock, pc, op, input, docId, snap, attempts, calls,
          hist, last, tally, created, childName, dateOfBirth, allergiesInput,
          selectedParentId, isDuplicate, checkingDuplicate, submitting,
          errors, timer, edits, advice, keyInput, keyOutput, app, logins, users,
          auth, registers, attendance, attendanceRecords, loading, today,
          writes, markCalls, marks, send, sends, requests, pushReg,
          otherInput, otherOutput>>

DocIds == {DocId[t] : t \in DOMAIN DocId}

NoSnap == [exists |-> FALSE, version |-> 0]
NoHist == [foundAtStart |-> FALSE, overlapped |-> FALSE, advised |-> FALSE]
NoAdvice == [tuple |-> <<>>, absent |-> FALSE]
NoTally == [started |-> 0, returned |-> 0, alreadyExists |-> 0, failed |-> 0]
NoLast == [caller |-> 0, op |-> "none", input |-> NoInput,
           result |-> NoResult, storeFailed |-> FALSE, attempts |-> 0,
           foundAtStart |-> FALSE, overlapped |-> FALSE, advised |-> FALSE]

\* the documents of the collection that belong to the identity of a tuple
RecordsFor(parentId, name, dob) ==
  {id \in DOMAIN children :
     /\ {"parentId", "name", "dateOfBirth"} \subseteq DOMAIN children[id]
     /\ children[id].parentId = parentId
     /\ Slug[children[id].name] = Slug[name]
     /\ children[id].dateOfBirth = dob}

\* the props of the screens: the second device is the admin's, the others
\* are the parent's
Admin1 == <<"A","1">>
userRole(c) == IF c = 2 THEN "admin" ELSE "parent"
userId(c) == IF c = 2 THEN Admin1 ELSE P1

\* the collection is empty
InitStore ==
  /\ children = <<>>
  /\ clock = 1

\* no call is in progress, the forms are empty
InitCallers ==
  /\ pc = [c \in Slots |-> "idle"]
  /\ op = [c \in Slots |-> "none"]
  /\ input = [c \in Slots |-> NoInput]
  /\ docId = [c \in Slots |-> <<>>]
  /\ snap = [c \in Slots |-> NoSnap]
  /\ attempts = [c \in Slots |-> 0]
  /\ calls = 0
  /\ hist = [c \in Slots |-> NoHist]
  /\ last = NoLast
  /\ tally = [k \in DocIds |-> NoTally]
  /\ created = <<>>
  /\ childName = [c \in Callers |-> <<>>]
  /\ dateOfBirth = [c \in Callers |-> <<>>]
  /\ allergiesInput = [c \in Callers |-> <<>>]
  /\ selectedParentId = [c \in Callers |->
                           IF userRole(c) = "admin" THEN <<>> ELSE userId(c)]
  /\ isDuplicate = [c \in Callers |-> FALSE]
  /\ checkingDuplicate = [c \in Callers |-> FALSE]
  /\ submitting = [c \in Callers |-> FALSE]
  /\ errors = [c \in Callers |-> {}]
  /\ timer = [c \in Callers |-> TRUE]
  /\ edits = 0
  /\ advice = [c \in Callers |-> NoAdvice]

InitChildren == InitStore /\ InitCallers

\* no call of the key functions by themselves has been made
NoKeyInput == [parentId |-> <<>>, name |-> <<>>, dob |-> <<>>]
NoKeyOutput == [called |-> FALSE, normalized |-> <<>>, again |-> <<>>,
                docId |-> <<>>]
InitKeyIdle == keyInput = NoKeyInput /\ keyOutput = NoKeyOutput

\* the number of login attempts
MaxLogins == 2
LoginAttempts == 1..MaxLogins

\* the accounts of the authentication service: email -> password, uid and
\* display name
Accounts ==
  [e \in {"admin@x", "staff@x", "parent@x", "teacher@x", "nodoc@x"} |->
     CASE e = "admin@x" -> [password |-> "secret", uid |-> "U1", displayName |-> "Ada A"]
       [] e = "staff@x" -> [password |-> "secret", uid |-> "U2", displayName |-> "Sam"]
       [] e = "parent@x" -> [password |-> "secret", uid |-> "U3", displayName |-> ""]
       [] e = "teacher@x" -> [password |-> "secret", uid |-> "U4", displayName |-> ""]
       [] e = "nodoc@x" -> [password |-> "secret", uid |-> "U5", displayName |-> ""]]

\* what is typed into the LoginScreen: the accounts, and a wrong password
Credentials ==
  {<<e, "secret">> : e \in DOMAIN Accounts} \cup {<<"admin@x", "wrong">>}

\* a document of "users": { name, role } and, once saved, the push token
UserDoc(name, role) == [name |-> name, role |-> role, pushToken |-> ""]

\* the users collection at the start: three users with a role of the app, one
\* with another role, and an account without a document
InitUsers ==
  [u \in {"U1", "U2", "U3", "U4"} |->
     CASE u = "U1" -> UserDoc("Ada", "admin")
       [] u = "U2" -> UserDoc("", "staff")
       [] u = "U3" -> UserDoc("", "parent")
       [] u = "U4" -> UserDoc("Tess", "teacher")]

\* the document snapshot of a document that does not exist
NoUserDoc == [name |-> "", role |-> "", pushToken |-> ""]

\* handleLogin returned null, or has not returned
NoLoginResult == [role |-> "", userName |-> "", userId |-> ""]
NoLogin == [pc |-> "none", email |-> "", password |-> "", uid |-> "",
            exists |-> FALSE, userData |-> NoUserDoc,
            result |-> NoLoginResult, push |-> "none", mounted |-> FALSE]
\* App as it is mounted: the login screen, nobody logged in
InitApp ==
  /\ app = [mode |-> "login", userName |-> "", userRole |-> "parent",
            userId |-> ""]
  /\ logins = [a \in LoginAttempts |-> NoLogin]
  /\ users = InitUsers

\* the number of registration attempts
MaxRegisters == 2
RegisterAttempts == 1..MaxRegisters

NoRegister == [pc |-> "none", fullName |-> "", email |-> <<>>,
               password |-> "", uid |-> "", result |-> FALSE,
               mounted |-> FALSE]

\* nobody has registered
InitRegister ==
  /\ auth = <<>>
  /\ registers = [r \in RegisterAttempts |-> NoRegister]

\* the AttendanceScreen has just been mounted, nothing is marked
InitAttendanceScreen ==
  /\ attendance = <<>>
  /\ attendanceRecords = <<>>
  /\ loading = TRUE
  /\ today = 1
  /\ writes = <<>>
  /\ markCalls = 0
  /\ marks = <<>>

\* JavaScript values as far as a response of the relay needs them
JUndefined == [type |-> "undefined", str |-> "", fields |-> <<>>, items |-> <<>>]
JNull == [type |-> "null", str |-> "", fields |-> <<>>, items |-> <<>>]
JString(str) == [type |-> "string", str |-> str, fields |-> <<>>, items |-> <<>>]
JObject(fields) == [type |-> "object", str |-> "", fields |-> fields, items |-> <<>>]
JArray(items) == [type |-> "array", str |-> "", fields |-> <<>>, items |-> items]

NoResponse == [kind |-> "none", result |-> JUndefined]
NoSend == [pc |-> "idle", pushToken |-> <<>>, sent |-> FALSE,
           response |-> NoResponse, result |-> NoResult]

\* the number of sendPushNotification calls
MaxSends == 2
SendCalls == 1..MaxSends

\* no notification has been sent
InitSend ==
  /\ send = [k \in SendCalls |-> NoSend]
  /\ sends = 0
  /\ requests = 0

\* null, as a registration returns it
Null == "null"

NoPushReg == [pc |-> "idle", calls |-> 0, userId |-> "", isDevice |-> FALSE,
              existingStatus |-> "", finalStatus |-> "", asked |-> 0,
              projectId |-> "none", fetched |-> FALSE, wrote |-> FALSE,
              saved |-> FALSE, listeners |-> 0, token |-> "",
              result |-> NoResult]

InitPushReg == pushReg = NoPushReg

\* no second call of the key functions has been made
InitPairIdle == otherInput = NoKeyInput /\ otherOutput = NoKeyOutput

InitOther ==
  InitRegister /\ InitAttendanceScreen /\ InitSend /\ InitPushReg
    /\ InitPairIdle

Init == InitChildren /\ InitKeyIdle /\ InitApp /\ InitOther

\* the addChildUnique calls in progress on a document id
Creating(id) == {x \in Slots : op[x] = "create" /\ docId[x] = id}

\* how a finished addChildUnique counts in the tally
Outcome(res) ==
  IF res.kind = "returned" THEN "returned"
  ELSE IF res.value = AlreadyExists THEN "alreadyExists"
  ELSE "failed"

\* a call ends: its frame is gone, the caller has the result
Finish(c, res, storeFailed) ==
  /\ last' = [caller |-> c, op |-> op[c], input |-> input[c],
              result |-> res, storeFailed |-> storeFailed,
              attempts |-> attempts[c],
              foundAtStart |-> hist[c].foundAtStart,
              overlapped |-> hist[c].overlapped,
              advised |-> hist[c].advised]
  /\ tally' = IF op[c] = "create"
                THEN [tally EXCEPT ![docId[c]][Outcome(res)] = @ + 1]
                ELSE tally
  /\ pc' = [pc EXCEPT ![c] = "idle"]
  /\ op' = [op EXCEPT ![c] = "none"]
  /\ input' = [input EXCEPT ![c] = NoInput]
  /\ docId' = [docId EXCEPT ![c] = <<>>]
  /\ snap' = [snap EXCEPT ![c] = NoSnap]
  /\ attempts' = [attempts EXCEPT ![c] = 0]
  /\ hist' = [hist EXCEPT ![c] = NoHist]

(***************************************************************************)
(* addChildUnique                                                          *)
(***************************************************************************)
\* lines 47-52: destructure the input, derive the document id
addChildUnique(c, i) ==
  LET id == DocId[TupleOf(i)] IN
  /\ pc[c] = "idle"
  /\ calls < MaxCalls
  /\ calls' = calls + 1
  /\ op' = [op EXCEPT ![c] = "create"]
  /\ input' = [input EXCEPT ![c] = i]
  /\ docId' = [docId EXCEPT ![c] = id]
  /\ pc' = [pc EXCEPT ![c] = "txGet"]
  /\ attempts' = [attempts EXCEPT ![c] = 1]
  /\ hist' = [x \in Slots |->
       IF x = c
         THEN [foundAtStart |-> RecordsFor(i.parentId, i.name, i.dateOfBirth) # {},
               overlapped |-> Creating(id) # {},
               advised |-> c \in Callers /\ advice[c] = [tuple |-> TupleOf(i), absent |-> TRUE]]
       ELSE IF x \in Creating(id) THEN [hist[x] EXCEPT !.overlapped = TRUE]
       ELSE hist[x]]
  /\ tally' = [tally EXCEPT ![id].started = @ + 1]
  /\ UNCHANGED <<storeVars, snap, last>>

\* a catch block that reports every error as a duplicate
CatchAddChildAsDuplicate(error) == Threw(AlreadyExists)

\* lines 78-81: the catch block logs the error and throws it again
CatchAddChild(error) == Threw(error)

\* line 57: transaction.get
transactionGet(c) ==
  /\ pc[c] = "txGet"
  /\ \/ /\ snap' = [snap EXCEPT ![c] =
             IF docId[c] \in DOMAIN children
               THEN [exists |-> TRUE, version |-> children[docId[c]].updatedAt]
               ELSE NoSnap]
        /\ pc' = [pc EXCEPT ![c] = "txBody"]
        /\ UNCHANGED <<op, input, docId, attempts, hist, last, tally>>
     \/ \E e \in StoreErrors : Finish(c, CatchAddChild(e), TRUE)
  /\ UNCHANGED <<storeVars, calls>>

\* a transaction function that does not look at what it read
ChildDocExistsIgnored(c) == FALSE

\* line 59: childDoc.exists()
ChildDocExists(c) == snap[c].exists

\* lines 66-73: the document transaction.set writes
NewChildDoc(c) ==
  [parentId |-> input[c].parentId,
   name |-> Trim(input[c].name),
   dateOfBirth |-> input[c].dateOfBirth,
   allergies |-> input[c].allergies,
   createdAt |-> clock,
   updatedAt |-> clock]

Put(store, id, document) ==
  [k \in DOMAIN store \cup {id} |-> IF k = id THEN document ELSE store[k]]

\* a function that writes the document at once (setDoc) and checks afterwards
transactionBodyWritesFirst(c) ==
  /\ pc[c] = "txBody"
  /\ children' = Put(children, docId[c], NewChildDoc(c))
  /\ clock' = clock + 1
  /\ IF ChildDocExists(c)
       THEN Finish(c, CatchAddChild(AlreadyExists), FALSE)
       ELSE Finish(c, Returned(docId[c]), FALSE)
  /\ UNCHANGED calls

\* lines 59-73: the rest of the transaction function: throw, or buffer the set
transactionBody(c) ==
  /\ pc[c] = "txBody"
  /\ IF ChildDocExists(c)
       THEN Finish(c, CatchAddChild(AlreadyExists), FALSE)
       ELSE /\ pc' = [pc EXCEPT ![c] = "txCommit"]
            /\ UNCHANGED <<op, input, docId, snap, attempts, hist, last, tally>>
  /\ UNCHANGED <<storeVars, calls>>

\* a store that applies a commit without checking what was read
CommitUnchecked(c) == TRUE

\* the store's check of a commit: every document read is as it was read
CommitValid(c) ==
  IF snap[c].exists
    THEN docId[c] \in DOMAIN children
         /\ children[docId[c]].updatedAt = snap[c].version
    ELSE docId[c] \notin DOMAIN children

\* lines 56, 74-77: runTransaction commits; the call returns the document id
transactionCommit(c) ==
  /\ pc[c] = "txCommit"
  /\ \/ /\ CommitValid(c)
        /\ children' = Put(children, docId[c], NewChildDoc(c))
        /\ clock' = clock + 1
        /\ Finish(c, Returned(docId[c]), FALSE)
     \/ /\ ~CommitValid(c)
        /\ attempts' = [attempts EXCEPT ![c] = @ + 1]
        /\ pc' = [pc EXCEPT ![c] = "txGet"]
        /\ UNCHANGED <<storeVars, op, input, docId, snap, hist, last, tally>>
     \/ /\ \E e \in StoreErrors : Finish(c, CatchAddChild(e), TRUE)
        /\ UNCHANGED storeVars
  /\ UNCHANGED calls

(***************************************************************************)
(* checkChildExists                                                        *)
(***************************************************************************)
\* lines 92-99
checkChildExists(c, parentId, name, dob) ==
  /\ pc[c] = "idle"
  /\ calls < MaxCalls
  /\ calls' = calls + 1
  /\ op' = [op EXCEPT ![c] = "exists"]
  /\ input' = [input EXCEPT ![c] = Child(parentId, name, dob, <<>>)]
  /\ docId' = [docId EXCEPT ![c] = DocId[<<parentId, name, dob>>]]
  /\ pc' = [pc EXCEPT ![c] = "exGet"]
  /\ hist' = [hist EXCEPT ![c] =
       [foundAtStart |-> RecordsFor(parentId, name, dob) # {},
        overlapped |-> FALSE,
        advised |-> FALSE]]
  /\ UNCHANGED <<storeVars, snap, attempts, last, tally>>

\* a catch block that throws the error again
CatchExistsRethrows(error) == Threw(error)

\* lines 102-105: the catch block logs the error and returns false
CatchExists(error) == Returned(FALSE)

\* "return !childDoc.exists()"
ExistsResultNegated(c) == Returned(docId[c] \notin DOMAIN children)

\* line 101: childDoc.exists()
ExistsResult(c) == Returned(docId[c] \in DOMAIN children)

\* lines 100-105: getDoc, and what the call returns
getDoc(c) ==
  /\ pc[c] = "exGet"
  /\ \/ Finish(c, ExistsResult(c), FALSE)
     \/ \E e \in StoreErrors : Finish(c, CatchExists(e), TRUE)
  /\ UNCHANGED <<storeVars, calls>>

(***************************************************************************)
(* Any number of callers, each calling the two operations in any order.    *)
(***************************************************************************)
Next ==
  \E c \in Callers :
    \/ \E i \in CreateChildInput : addChildUnique(c, i) /\ UNCHANGED notServiceVars
    \/ transactionGet(c) /\ UNCHANGED notServiceVars
    \/ transactionBody(c) /\ UNCHANGED notServiceVars
    \/ transactionCommit(c) /\ UNCHANGED notServiceVars
    \/ \E t \in Tuples :
         checkChildExists(c, t[1], t[2], t[3]) /\ UNCHANGED notServiceVars
    \/ getDoc(c) /\ UNCHANGED notServiceVars

Spec == Init /\ [][Next]_vars

(***************************************************************************)
(* The callers register one child, each in a spelling of its own choice.   *)
(***************************************************************************)
NextSpellings ==
  \E c \in Callers :
    \/ \E i \in SpellingInput : addChildUnique(c, i) /\ UNCHANGED notServiceVars
    \/ transactionGet(c) /\ UNCHANGED notServiceVars
    \/ transactionBody(c) /\ UNCHANGED notServiceVars
    \/ transactionCommit(c) /\ UNCHANGED notServiceVars
    \/ \E t \in SpellingTuples :
         checkChildExists(c, t[1], t[2], t[3]) /\ UNCHANGED notServiceVars
    \/ getDoc(c) /\ UNCHANGED notServiceVars

SpecSpellings == Init /\ [][NextSpellings]_vars

(***************************************************************************)
(* The earlier helpers of the "children" collection: addChild and          *)
(* updateChild.                                                            *)
(***************************************************************************)
\* the ids addDoc generates: 20 characters, each a letter or a digit
AutoIdLength == 20
AutoId(n) ==
  [k \in 1..AutoIdLength |->
     IF k = AutoIdLength THEN UpperLetters[n] ELSE "A"]
AutoIds == {AutoId(n) : n \in 1..MaxCalls}

\* lines 19-25: the document addDoc stores
LegacyChildDoc(parentId, name, dob, allergies) ==
  [parentId |-> parentId, name |-> name, dateOfBirth |-> dob,
   allergies |-> allergies, createdAt |-> clock]

\* lines 17-31: addDoc under an id of the store's choice; an error is logged
addChild(parentId, name, dob, allergies) ==
  /\ calls < MaxCalls
  /\ calls' = calls + 1
  /\ \/ \E id \in AutoIds \ DOMAIN children :
          /\ children' = Put(children, id,
                             LegacyChildDoc(parentId, name, dob, allergies))
          /\ clock' = clock + 1
          /\ created' = Put(created, id, <<parentId, name, dob>>)
     \/ /\ \E e \in StoreErrors : TRUE
        /\ UNCHANGED <<storeVars, created>>
  /\ UNCHANGED <<pc, op, input, docId, snap, attempts, hist, last, tally>>

\* what callers of updateChild pass as updatedData
UpdatedData ==
  {[allergies |-> <<Nuts>>],
   [name |-> JeanLucSpace, allergies |-> <<>>]}

\* lines 36-39: { ...updatedData, updatedAt: serverTimestamp() }
UpdatedDoc(updatedData) ==
  [k \in DOMAIN updatedData \cup {"updatedAt"} |->
     IF k = "updatedAt" THEN clock ELSE updatedData[k]]

\* lines 33-44: setDoc without merge replaces the document; an error is logged
updateChild(childId, updatedData) ==
  /\ calls < MaxCalls
  /\ calls' = calls + 1
  /\ \/ /\ children' = Put(children, childId, UpdatedDoc(updatedData))
        /\ clock' = clock + 1
     \/ /\ \E e \in StoreErrors : TRUE
        /\ UNCHANGED storeVars
  /\ UNCHANGED <<pc, op, input, docId, snap, attempts, hist, last, tally,
                 created>>

\* a commit of addChildUnique that stored its document
Stored(c) == children' # children

\* the documents the add-child entry points stored, after a step of c
CreatedAfter(c) ==
  IF Stored(c) THEN Put(created, docId[c], TupleOf(input[c])) ELSE created

(***************************************************************************)
(* The callers use addChildUnique, checkChildExists, addChild and          *)
(* updateChild in any order; updateChild is called on existing documents.  *)
(***************************************************************************)
NextLegacy ==
  \/ \E c \in Callers :
       \/ \E i \in CreateChildInput :
            addChildUnique(c, i) /\ UNCHANGED <<notStoreVars, created>>
       \/ transactionGet(c) /\ UNCHANGED <<notStoreVars, created>>
       \/ transactionBody(c) /\ UNCHANGED <<notStoreVars, created>>
       \/ transactionCommit(c) /\ created' = CreatedAfter(c)
            /\ UNCHANGED notStoreVars
       \/ \E t \in Tuples :
            checkChildExists(c, t[1], t[2], t[3])
              /\ UNCHANGED <<notStoreVars, created>>
       \/ getDoc(c) /\ UNCHANGED <<notStoreVars, created>>
  \/ \E i \in CreateChildInput :
       addChild(i.parentId, i.name, i.dateOfBirth, i.allergies)
         /\ UNCHANGED notStoreVars
  \/ \E childId \in DOMAIN children, updatedData \in UpdatedData :
       updateChild(childId, updatedData) /\ UNCHANGED notStoreVars

SpecLegacy == Init /\ [][NextLegacy]_vars

(***************************************************************************)
(* AddChildScreen                                                          *)
(***************************************************************************)
DigitValue(ch) ==
  CASE ch = "0" -> 0 [] ch = "1" -> 1 [] ch = "2" -> 2 [] ch = "3" -> 3
    [] ch = "4" -> 4 [] ch = "5" -> 5 [] ch = "6" -> 6 [] ch = "7" -> 7
    [] ch = "8" -> 8 [] ch = "9" -> 9

\* validateDate: /^\d{4}-\d{2}-\d{2}$/, and a date that new Date() accepts
validateDate(dateString) ==
  /\ Len(dateString) = 10
  /\ \A i \in {1, 2, 3, 4, 6, 7, 9, 10} : dateString[i] \in Digits
  /\ dateString[5] = "-" /\ dateString[8] = "-"
  /\ LET month == 10 * DigitValue(dateString[6]) + DigitValue(dateString[7])
         day == 10 * DigitValue(dateString[9]) + DigitValue(dateString[10])
     IN month \in 1..12 /\ day \in 1..31

\* input.split(",")
RECURSIVE SplitAtCommas(_)
SplitAtCommas(s) ==
  LET NotComma(ch) == ch # ","
      first == CHOOSE n \in 0..Len(s) :
                 /\ \A i \in 1..n : NotComma(s[i])
                 /\ n = Len(s) \/ ~NotComma(s[n + 1])
  IN IF first = Len(s) THEN <<s>>
     ELSE <<SubSeq(s, 1, first)>> \o SplitAtCommas(SubSeq(s, first + 2, Len(s)))

\* parseAllergies
parseAllergies(text) ==
  IF Trim(text) = <<>> THEN <<>>
  ELSE LET items == SplitAtCommas(text)
           trimmed == [i \in DOMAIN items |-> Trim(items[i])]
           NotEmpty(item) == Len(item) > 0
       IN Filter(NotEmpty, trimmed)

\* "userRole === 'parent' ? userId : selectedParentId"
ParentIdOf(s) == IF userRole(s) = "parent" THEN userId(s) ELSE selectedParentId[s]

\* the effect that sets the debounce timer runs when a field it depends on changed
\* onChangeText of the child name
setChildName(s, text) ==
  /\ edits < MaxEdits
  /\ text # childName[s]
  /\ edits' = edits + 1
  /\ childName' = [childName EXCEPT ![s] = text]
  /\ errors' = [errors EXCEPT ![s] = @ \ {"childName"}]
  /\ timer' = [timer EXCEPT ![s] = TRUE]
  /\ UNCHANGED <<dateOfBirth, allergiesInput, selectedParentId, isDuplicate,
                 checkingDuplicate, submitting, advice>>
  /\ UNCHANGED serviceVars

\* onChangeText of the date of birth
setDateOfBirth(s, text) ==
  /\ edits < MaxEdits
  /\ text # dateOfBirth[s]
  /\ edits' = edits + 1
  /\ dateOfBirth' = [dateOfBirth EXCEPT ![s] = text]
  /\ errors' = [errors EXCEPT ![s] = @ \ {"dateOfBirth"}]
  /\ timer' = [timer EXCEPT ![s] = TRUE]
  /\ UNCHANGED <<childName, allergiesInput, selectedParentId, isDuplicate,
                 checkingDuplicate, submitting, advice>>
  /\ UNCHANGED serviceVars

\* onChangeText of the allergies
setAllergiesInput(s, text) ==
  /\ edits < MaxEdits
  /\ text # allergiesInput[s]
  /\ edits' = edits + 1
  /\ allergiesInput' = [allergiesInput EXCEPT ![s] = text]
  /\ UNCHANGED <<childName, dateOfBirth, selectedParentId, isDuplicate,
                 checkingDuplicate, submitting, errors, timer, advice>>
  /\ UNCHANGED serviceVars

\* onValueChange of the parent select, which only the admin sees; the select
\* offers no empty value, so it changes once per form
setSelectedParentId(s, value) ==
  /\ userRole(s) = "admin"
  /\ value # selectedParentId[s]
  /\ UNCHANGED edits
  /\ selectedParentId' = [selectedParentId EXCEPT ![s] = value]
  /\ errors' = [errors EXCEPT ![s] = @ \ {"parentId"}]
  /\ timer' = [timer EXCEPT ![s] = TRUE]
  /\ UNCHANGED <<childName, dateOfBirth, allergiesInput, isDuplicate,
                 checkingDuplicate, submitting, advice>>
  /\ UNCHANGED serviceVars

\* checkDuplicate, run by the debounce timer, up to its await; a screen has
\* one check in flight at a time
checkDuplicate(s) ==
  /\ timer[s]
  /\ timer' = [timer EXCEPT ![s] = FALSE]
  /\ IF \/ Trim(childName[s]) = <<>>
        \/ Trim(dateOfBirth[s]) = <<>>
        \/ ~validateDate(dateOfBirth[s])
       THEN /\ isDuplicate' = [isDuplicate EXCEPT ![s] = FALSE]
            /\ errors' = [errors EXCEPT ![s] = @ \ {"duplicate"}]
            /\ UNCHANGED <<checkingDuplicate, serviceVars>>
     ELSE IF ParentIdOf(s) = <<>>
       THEN UNCHANGED <<isDuplicate, errors, checkingDuplicate, serviceVars>>
     ELSE /\ checkingDuplicate' = [checkingDuplicate EXCEPT ![s] = TRUE]
          /\ checkChildExists(CheckSlot(s), ParentIdOf(s), childName[s],
                              dateOfBirth[s])
          /\ UNCHANGED <<isDuplicate, errors>>
  /\ UNCHANGED <<formVars, submitting, edits, advice>>

\* checkDuplicate after its await
checkDuplicateDone(s) ==
  /\ getDoc(CheckSlot(s))
  /\ IF last'.result.kind = "returned"
       THEN /\ isDuplicate' = [isDuplicate EXCEPT ![s] = last'.result.value]
            /\ errors' = [errors EXCEPT ![s] =
                 IF last'.result.value THEN @ \cup {"duplicate"}
                 ELSE @ \ {"duplicate"}]
       ELSE UNCHANGED <<isDuplicate, errors>>
  /\ checkingDuplicate' = [checkingDuplicate EXCEPT ![s] = FALSE]
  /\ advice' = [advice EXCEPT ![s] =
       [tuple |-> TupleOf(input[CheckSlot(s)]),
        absent |-> last'.result = Returned(FALSE) /\ ~last'.storeFailed]]
  /\ UNCHANGED <<formVars, submitting, timer, edits>>

\* validateForm: the fields with an error message
validateForm(s) ==
  {f \in {"childName"} : Trim(childName[s]) = <<>>}
  \cup {f \in {"dateOfBirth"} :
          Trim(dateOfBirth[s]) = <<>> \/ ~validateDate(dateOfBirth[s])}
  \cup {f \in {"parentId"} : userRole(s) = "admin" /\ selectedParentId[s] = <<>>}
  \cup {f \in {"duplicate"} : isDuplicate[s]}

\* handleSubmit up to its await
handleSubmit(s) ==
  /\ errors' = [errors EXCEPT ![s] = validateForm(s)]
  /\ IF validateForm(s) # {}
       THEN /\ errors'[s] # errors[s]
            /\ UNCHANGED <<submitting, serviceVars>>
       ELSE /\ submitting' = [submitting EXCEPT ![s] = TRUE]
            /\ addChildUnique(s, Child(ParentIdOf(s), childName[s],
                                       dateOfBirth[s],
                                       parseAllergies(allergiesInput[s])))
  /\ UNCHANGED <<formVars, isDuplicate, checkingDuplicate, timer, edits,
                 advice>>

\* isDisabled of the submit button
SubmitDisabled(s) == submitting[s] \/ isDuplicate[s] \/ checkingDuplicate[s]

\* onPress of the submit button
pressSubmit(s) == ~SubmitDisabled(s) /\ handleSubmit(s)

\* a handleSubmit that clears the form whatever the outcome
handleSubmitDoneClearsForm(s) ==
  /\ childName' = [childName EXCEPT ![s] = <<>>]
  /\ dateOfBirth' = [dateOfBirth EXCEPT ![s] = <<>>]
  /\ allergiesInput' = [allergiesInput EXCEPT ![s] = <<>>]
  /\ selectedParentId' = [selectedParentId EXCEPT ![s] =
       IF userRole(s) = "admin" THEN <<>> ELSE @]
  /\ errors' = [errors EXCEPT ![s] = {}]
  /\ isDuplicate' = [isDuplicate EXCEPT ![s] = FALSE]
  /\ timer' = [timer EXCEPT ![s] = TRUE]
  /\ submitting' = [submitting EXCEPT ![s] = FALSE]
  /\ UNCHANGED <<checkingDuplicate, edits, advice>>

\* handleSubmit after its await: the form is cleared on success only
handleSubmitDone(s) ==
  /\ IF last'.result.kind = "returned"
       THEN /\ childName' = [childName EXCEPT ![s] = <<>>]
            /\ dateOfBirth' = [dateOfBirth EXCEPT ![s] = <<>>]
            /\ allergiesInput' = [allergiesInput EXCEPT ![s] = <<>>]
            /\ selectedParentId' = [selectedParentId EXCEPT ![s] =
                 IF userRole(s) = "admin" THEN <<>> ELSE @]
            /\ errors' = [errors EXCEPT ![s] = {}]
            /\ isDuplicate' = [isDuplicate EXCEPT ![s] = FALSE]
            /\ timer' = [timer EXCEPT ![s] = TRUE]
       ELSE UNCHANGED <<formVars, errors, isDuplicate, timer>>
  /\ submitting' = [submitting EXCEPT ![s] = FALSE]
  /\ UNCHANGED <<checkingDuplicate, edits, advice>>

\* a step of the addChildUnique call that handleSubmit awaits
awaitAddChildUnique(s) ==
  /\ submitting[s]
  /\ \/ transactionGet(s)
     \/ transactionBody(s)
     \/ transactionCommit(s)
  /\ IF pc'[s] = "idle" THEN handleSubmitDone(s) ELSE UNCHANGED screenVars

(***************************************************************************)
(* The devices show AddChildScreen; all calls come from the screens.       *)
(***************************************************************************)
NextScreen ==
  \E s \in Callers :
    \/ \E text \in ChildNameTexts :
         setChildName(s, text) /\ UNCHANGED notScreenVars
    \/ \E text \in DateOfBirthTexts :
         setDateOfBirth(s, text) /\ UNCHANGED notScreenVars
    \/ \E text \in AllergiesTexts :
         setAllergiesInput(s, text) /\ UNCHANGED notScreenVars
    \/ \E value \in Parents :
         setSelectedParentId(s, value) /\ UNCHANGED notScreenVars
    \/ checkDuplicate(s) /\ UNCHANGED notScreenVars
    \/ checkDuplicateDone(s) /\ UNCHANGED notScreenVars
    \/ pressSubmit(s) /\ UNCHANGED notScreenVars
    \/ awaitAddChildUnique(s) /\ UNCHANGED notScreenVars

SpecScreen == Init /\ [][NextScreen]_vars

(***************************************************************************)
(* normalizeName and childDocId called by themselves, on every name of up  *)
(* to MaxNameLen code points, and on names that differ from it only in     *)
(* letter case, in accents, in outer white space or in separators.         *)
(***************************************************************************)
MaxNameLen == 3

\* the code points of the names drawn: letters, a digit, the separators, a
\* punctuation mark, a precomposed letter and a combining mark; the upper
\* case letters come in by changeCase
KeyAlphabet == {"a", "e", "1", " ", "-", "'", "U+00C9", "U+0301"}
KeyNames == UNION {[1..n -> KeyAlphabet] : n \in 0..MaxNameLen}
\* parentId and dob are passed as they are, whatever they hold
KeyParentIds == {P1, <<>>}
KeyDobs == {Dob2020, BadDob}

InitKeyInput ==
  /\ keyInput \in [parentId : KeyParentIds, name : KeyNames, dob : KeyDobs]
  /\ keyOutput = NoKeyOutput

InitKey == InitChildren /\ InitKeyInput /\ InitApp /\ InitOther

KeyOutputOf(in) ==
  LET normalized == normalizeName(in.name) IN
  [called |-> TRUE,
   normalized |-> normalized,
   again |-> normalizeName(normalized),
   docId |-> childDocId(in.parentId, in.name, in.dob)]

\* the functions are called with the arguments drawn
applyKeyFunctions ==
  /\ ~keyOutput.called
  /\ keyOutput' = KeyOutputOf(keyInput)
  /\ UNCHANGED keyInput

\* the functions are called again with another name
applyToName(name) ==
  /\ keyOutput.called
  /\ Len(name) <= MaxNameLen
  /\ name # keyInput.name
  /\ keyInput' = [keyInput EXCEPT !.name = name]
  /\ keyOutput' = KeyOutputOf(keyInput')

ReplaceAt(s, i, ch) == [s EXCEPT ![i] = ch]
\* ch put behind position i
InsertAt(s, i, ch) == SubSeq(s, 1, i) \o <<ch>> \o SubSeq(s, i + 1, Len(s))
DeleteAt(s, i) == SubSeq(s, 1, i - 1) \o SubSeq(s, i + 1, Len(s))

IsSeparator(ch) == ch \in WhiteSpace \/ ch = "-"
IsLetter(ch) ==
  \/ ch \in LowerLetterSet \cup UpperLetterSet
  \/ \E p \in Precomposed : ch \in {p[1], p[2]}

\* the same letter in the other case
OtherCase(ch) ==
  IF ch \in LowerLetterSet
    THEN UpperLetters[CHOOSE i \in DOMAIN LowerLetters : LowerLetters[i] = ch]
    ELSE IF \E p \in Precomposed : p[2] = ch
      THEN (CHOOSE p \in Precomposed : p[2] = ch)[1]
      ELSE LowerChar(ch)

\* the name with one letter in the other case
changeCase ==
  \E i \in DOMAIN keyInput.name :
    /\ IsLetter(keyInput.name[i])
    /\ applyToName(ReplaceAt(keyInput.name, i, OtherCase(keyInput.name[i])))

\* the name with an accent more or less: a letter replaced by the accented
\* letter or back, a combining mark put behind a letter or taken away
changeAccent ==
  \E i \in DOMAIN keyInput.name :
    LET ch == keyInput.name[i] IN
    \/ \E p \in Precomposed :
         \/ ch = p[1] /\ applyToName(ReplaceAt(keyInput.name, i, p[3]))
         \/ ch = p[2] /\ applyToName(ReplaceAt(keyInput.name, i, p[4]))
         \/ ch = p[3] /\ applyToName(ReplaceAt(keyInput.name, i, p[1]))
         \/ ch = p[4] /\ applyToName(ReplaceAt(keyInput.name, i, p[2]))
    \/ /\ IsLetter(ch)
       /\ \E m \in CombiningMarks \cap KeyAlphabet :
            applyToName(InsertAt(keyInput.name, i, m))
    \/ /\ ch \in CombiningMarks
       /\ applyToName(DeleteAt(keyInput.name, i))

\* the name with white space more or less at its ends
changeOuterSpace ==
  \/ \E w \in WhiteSpace \cap KeyAlphabet :
       \/ applyToName(<<w>> \o keyInput.name)
       \/ applyToName(keyInput.name \o <<w>>)
  \/ /\ keyInput.name # <<>>
     /\ \/ /\ Head(keyInput.name) \in WhiteSpace
           /\ applyToName(Tail(keyInput.name))
        \/ /\ keyInput.name[Len(keyInput.name)] \in WhiteSpace
           /\ applyToName(SubSeq(keyInput.name, 1, Len(keyInput.name) - 1))

\* position i is in a run of spaces and hyphens between two words
BetweenWords(s, i) ==
  /\ IsSeparator(s[i])
  /\ \E j \in 1..(i - 1) : ~IsSeparator(s[j])
  /\ \E j \in (i + 1)..Len(s) : ~IsSeparator(s[j])

\* the name with another run of spaces and hyphens between two words
changeSeparator ==
  \E i \in DOMAIN keyInput.name :
    /\ BetweenWords(keyInput.name, i)
    /\ \/ \E sep \in {" ", "-"} :
            \/ applyToName(ReplaceAt(keyInput.name, i, sep))
            \/ applyToName(InsertAt(keyInput.name, i, sep))
       \/ /\ i > 1 /\ IsSeparator(keyInput.name[i - 1])
          /\ applyToName(DeleteAt(keyInput.name, i))

NextKey ==
  \/ applyKeyFunctions /\ UNCHANGED notKeyVars
  \/ changeCase /\ UNCHANGED notKeyVars
  \/ changeAccent /\ UNCHANGED notKeyVars
  \/ changeOuterSpace /\ UNCHANGED notKeyVars
  \/ changeSeparator /\ UNCHANGED notKeyVars

SpecKey == InitKey /\ [][NextKey]_vars

(***************************************************************************)
(* Properties of addChildUnique (createChildUnique) and checkChildExists   *)
(* (existsChild).                                                          *)
(***************************************************************************)
LastTuple == TupleOf(last.input)
LastCreate == last.op = "create"
LastExists == last.op = "exists"
LastRecords == RecordsFor(last.input.parentId, last.input.name, last.input.dateOfBirth)

\* caller c takes a step / ends its call in this step
Steps(c) == pc'[c] # pc[c]
Ends(c) == pc[c] # "idle" /\ pc'[c] = "idle"

\* C1: after any addChildUnique calls of any callers, no two documents of
\* the children collection have the same parentId, the same normalized name
\* and the same dateOfBirth (Slug tabulates normalizeName).
C1_NoDuplicateChild ==
  \A a, b \in DOMAIN children :
    (/\ children[a].parentId = children[b].parentId
     /\ Slug[children[a].name] = Slug[children[b].name]
     /\ children[a].dateOfBirth = children[b].dateOfBirth) => a = b

\* a second spelling of a stored child was tried and refused
C1_Witness ==
  /\ LastCreate
  /\ last.result = Threw(AlreadyExists)
  /\ \E id \in LastRecords : children[id].name # Trim(last.input.name)

\* C2: of the addChildUnique calls made for one document id, at most one
\* returns; when two were made and neither failed on the store, exactly one
\* returned the id and the other threw AlreadyExists, however their reads
\* and commits interleaved.
C2_ExactlyOneWins ==
  \A k \in DocIds :
    /\ tally[k].returned <= 1
    /\ (/\ tally[k].started = 2
        /\ Creating(k) = {}
        /\ tally[k].failed = 0)
       => tally[k].returned = 1 /\ tally[k].alreadyExists = 1

\* both callers read "absent"; the loser's commit conflicted and its second
\* attempt found the winner's record
C2_Witness ==
  /\ LastCreate
  /\ last.overlapped
  /\ last.attempts = 2
  /\ last.result = Threw(AlreadyExists)
  /\ tally[DocId[LastTuple]] =
       [started |-> 2, returned |-> 1, alreadyExists |-> 1, failed |-> 0]

\* C3: of two addChildUnique calls with the same tuple made one after the
\* other on a store without a record of the tuple, the first returns
\* childDocId(parentId, name, dateOfBirth), the id of the new record, and the
\* second throws AlreadyExists.
C3_SequentialCalls ==
  (LastCreate /\ ~last.overlapped /\ ~last.storeFailed) =>
    LET k == childDocId(last.input.parentId, last.input.name,
                        last.input.dateOfBirth) IN
    /\ ~last.foundAtStart =>
         /\ last.result = Returned(k)
         /\ k \in DOMAIN children
         /\ children[k].parentId = last.input.parentId
         /\ children[k].dateOfBirth = last.input.dateOfBirth
    /\ last.foundAtStart => last.result = Threw(AlreadyExists)

C3_Witness ==
  /\ LastCreate
  /\ ~last.overlapped
  /\ last.foundAtStart
  /\ last.result = Threw(AlreadyExists)
  /\ \E id \in LastRecords : children[id].name = last.input.name
  /\ tally[DocId[LastTuple]] =
       [started |-> 2, returned |-> 1, alreadyExists |-> 1, failed |-> 0]

\* C4: an addChildUnique call that throws AlreadyExists has not changed the
\* store: no step of a call changes the children collection but the step in
\* which the call returns the id.
C4_AlreadyExistsChangesNothing ==
  [][\A c \in Slots :
       (op[c] = "create" /\ Steps(c)
          /\ ~(Ends(c) /\ last'.result.kind = "returned"))
       => children' = children]_vars

\* a record with other fields than those of the refused call is still there
C4_Witness ==
  /\ LastCreate
  /\ last.result = Threw(AlreadyExists)
  /\ \E id \in LastRecords :
       /\ children[id].allergies # last.input.allergies
       /\ children[id].createdAt < clock - 1

\* C5: addChildUnique throws AlreadyExists exactly when the read of its
\* transaction found a record at the derived id: never when the id is
\* absent, and it never writes when the id is present.
C5_AlreadyExistsIffFound ==
  [][\A c \in Slots :
       (op[c] = "create" /\ Steps(c)) =>
         /\ (Ends(c) /\ last'.result = Threw(AlreadyExists))
              <=> (pc[c] = "txBody" /\ snap[c].exists)
         /\ (pc[c] = "txBody" /\ snap[c].exists) => docId[c] \in DOMAIN children
         /\ children' # children => docId[c] \notin DOMAIN children]_vars

C5_Witness ==
  /\ LastCreate
  /\ last.result = Threw(AlreadyExists)
  /\ DocId[LastTuple] \in DOMAIN children

\* C6: an addChildUnique call ends in one of three ways: it returns the id,
\* it throws AlreadyExists, or it throws the error of the store; a failure
\* of the store is never reported as AlreadyExists or as success.
C6_ThreeOutcomes ==
  LastCreate =>
    /\ \/ last.result = Returned(DocId[LastTuple])
       \/ last.result = Threw(AlreadyExists)
       \/ \E e \in StoreErrors : last.result = Threw(e)
    /\ AlreadyExists \notin StoreErrors
    /\ last.storeFailed <=> \E e \in StoreErrors : last.result = Threw(e)
    /\ last.result.kind = "returned" =>
         /\ DocId[LastTuple] \in DOMAIN children
         /\ tally[DocId[LastTuple]].returned >= 1

\* the store failed a call for a tuple whose record exists
C6_Witness ==
  /\ LastCreate
  /\ last.storeFailed
  /\ last.result = Threw("permission-denied")
  /\ LastRecords # {}

\* C7: with a reachable store, checkChildExists returns false for a tuple
\* never created and true once addChildUnique has committed for the tuple,
\* in whichever spelling of the name.
C7_ExistsAfterCommit ==
  (LastExists /\ ~last.storeFailed) =>
    /\ last.foundAtStart => last.result = Returned(TRUE)
    /\ LastRecords = {} => last.result = Returned(FALSE)

C7_Witness ==
  /\ LastExists
  /\ last.result = Returned(TRUE)
  /\ \E id \in LastRecords : children[id].name # Trim(last.input.name)

\* C8: checkChildExists never throws: when the read fails it returns false,
\* even if a record exists at the derived id; and it never changes the store.
C8_ExistsNeverThrows ==
  /\ [](LastExists =>
          /\ last.result.kind = "returned"
          /\ last.storeFailed => last.result = Returned(FALSE))
  /\ [][\A c \in Slots :
          ((op[c] = "exists" \/ op'[c] = "exists") /\ Steps(c))
          => children' = children]_vars

C8_Witness ==
  /\ LastExists
  /\ last.storeFailed
  /\ last.result = Returned(FALSE)
  /\ last.foundAtStart
  /\ LastRecords # {}

\* C9: the answer of checkChildExists is advisory. When a screen was told
\* "no such child" for the tuple it then submits, and another caller has
\* committed the tuple in between, the addChildUnique call of the screen
\* throws AlreadyExists; whenever this happens the call has changed nothing
\* and the store holds exactly one record of the tuple.
C9_PreCheckIsAdvisory ==
  [][\A s \in Callers :
       (/\ op[s] = "create"
        /\ hist[s].advised
        /\ Ends(s)
        /\ last'.result = Threw(AlreadyExists))
       => /\ children' = children
          /\ Cardinality(RecordsFor(input[s].parentId, input[s].name,
                                    input[s].dateOfBirth)) = 1]_vars

\* the screen of the parent was told "no such child", the admin committed
\* the child, the parent submitted and was refused
C9_Witness ==
  /\ LastCreate
  /\ last.advised
  /\ userRole(last.caller) = "parent"
  /\ last.result = Threw(AlreadyExists)
  /\ ~submitting[last.caller]
  /\ childName[last.caller] = last.input.name
  /\ Cardinality(LastRecords) = 1
  /\ \E id \in LastRecords : children[id].createdAt = 1

\* C10: addChildUnique calls with different derived ids do not conflict: a
\* call that no call on its own id overlaps returns iff the store held no
\* record of its tuple, whatever calls on other ids run meanwhile, and no
\* step of a call changes a document at another id.
C10_OtherKeysIndependent ==
  /\ []((LastCreate /\ ~last.overlapped /\ ~last.storeFailed) =>
          (last.result.kind = "returned" <=> ~last.foundAtStart))
  /\ [][\A c \in Slots :
          (op[c] = "create" /\ Steps(c)) =>
            /\ DOMAIN children \subseteq DOMAIN children'
            /\ \A k \in DOMAIN children' :
                 k # docId[c] => k \in DOMAIN children /\ children'[k] = children[k]]_vars

\* the same parent and name with two dates of birth: two records, the second
\* created while a call on the other id was running
C10_Witness ==
  /\ LastCreate
  /\ last.result.kind = "returned"
  /\ DocId[<<P1, JeanLucHyphen, Dob2020>>] \in DOMAIN children
  /\ DocId[<<P1, JeanLucHyphen, Dob2021>>] \in DOMAIN children
  /\ \E c \in Slots : op[c] = "create" /\ pc[c] = "txCommit"

(***************************************************************************)
(* Properties of normalizeName and childDocId (deriveChildKey).            *)
(***************************************************************************)
\* C11: childDocId(parentId, name, dob) is parentId, "__", the normalized
\* name, "__" and dob one after the other, with parentId and dob as they
\* were passed, whatever they hold; the same arguments give the same id.
C11_KeyIsConcatenation ==
  keyOutput.called =>
    LET k == keyOutput.docId
        p == keyInput.parentId
        n == keyOutput.normalized
        d == keyInput.dob
    IN /\ Len(k) = Len(p) + 2 + Len(n) + 2 + Len(d)
       /\ SubSeq(k, 1, Len(p)) = p
       /\ SubSeq(k, Len(p) + 1, Len(p) + 2) = <<"_", "_">>
       /\ SubSeq(k, Len(p) + 3, Len(p) + 2 + Len(n)) = n
       /\ SubSeq(k, Len(p) + Len(n) + 3, Len(p) + Len(n) + 4) = <<"_", "_">>
       /\ SubSeq(k, Len(k) - Len(d) + 1, Len(k)) = d
       /\ childDocId(p, keyInput.name, d) = k

\* an empty parentId and a dob that is no date, with a name that the
\* normalization changes
C11_Witness ==
  /\ keyOutput.called
  /\ keyInput.parentId = <<>>
  /\ keyInput.dob = BadDob
  /\ keyInput.name = <<"U+00C9", " ", "1">>
  /\ keyOutput.docId = <<"_", "_", "e", "-", "1", "_", "_">> \o BadDob

\* C12: for parent P1 and date of birth 2020-05-15 the names "Jean-Luc",
\* "Jean Luc" and "  Jean   Luc  " give the id P1__jean-luc__2020-05-15; once
\* addChildUnique has returned for one of the spellings, a call with any of
\* them throws AlreadyExists.
C12_SpellingsAreOneChild ==
  /\ \A n \in JeanLucSpellings : DocId[<<P1, n, Dob2020>>] = JeanLucKey
  /\ tally[JeanLucKey].returned <= 1
  /\ LastCreate =>
       /\ last.result.kind = "returned" => last.result.value = JeanLucKey
       /\ (JeanLucKey \in DOMAIN children /\ last.foundAtStart /\ ~last.storeFailed)
            => last.result = Threw(AlreadyExists)

\* stored as "Jean-Luc", refused as "  Jean   Luc  "
C12_Witness ==
  /\ LastCreate
  /\ last.input.name = JeanLucPadded
  /\ last.result = Threw(AlreadyExists)
  /\ JeanLucKey \in DOMAIN children
  /\ children[JeanLucKey].name = JeanLucHyphen
  /\ Cardinality(DOMAIN children) = 1

\* C13: normalizeName is idempotent: normalizing a normalized name changes
\* nothing.
C13_Idempotent == keyOutput.called => keyOutput.again = keyOutput.normalized

C13_Witness ==
  /\ keyOutput.called
  /\ keyInput.name = <<"a", " ", "-">>
  /\ keyOutput.normalized = <<"a">>
  /\ keyOutput.again = <<"a">>

C15_NormalizedShape ==
  keyOutput.called =>
    LET n == keyOutput.normalized
        stripped == StripMarks(NormalizeNFD(ToLowerCase(keyInput.name)))
    IN /\ \A i \in DOMAIN n : n[i] \in LowerLetterSet \cup Digits \cup {"-"}
       /\ n # <<>> => n[1] # "-" /\ n[Len(n)] # "-"
       /\ \A i \in 1..(Len(n) - 1) : ~(n[i] = "-" /\ n[i + 1] = "-")
       /\ keyInput.name = <<>> => n = <<>>
       /\ (\A i \in DOMAIN stripped : stripped[i] \notin LowerLetterSet \cup Digits)
            => /\ n = <<>>
               /\ keyOutput.docId =
                    keyInput.parentId \o <<"_", "_", "_", "_">> \o keyInput.dob

\* a name of punctuation, separators and a mark only
C15_Witness ==
  /\ keyOutput.called
  /\ keyInput.name = <<"'", "-", "U+0301">>
  /\ keyInput.parentId = P1
  /\ keyOutput.normalized = <<>>
  /\ keyOutput.docId = P1 \o <<"_", "_", "_", "_">> \o keyInput.dob

(***************************************************************************)
(* App: login.                                                             *)
(***************************************************************************)
\* a || b of JavaScript on strings
OrElse(a, b) == IF a # "" THEN a ELSE b

\* line 361: userData.name || displayName || email || "User"
UserNameOf(userData, email) ==
  OrElse(userData.name,
         OrElse(Accounts[email].displayName, OrElse(email, "User")))

\* a handleLogin that lets every role in
LoginResultAnyRole(role, userName, uid) ==
  [role |-> role, userName |-> userName, userId |-> uid]

\* lines 378-390: the result for the role of the document, null for others
LoginResult(role, userName, uid) ==
  IF role = "admin"
    THEN [role |-> "admin", userName |-> userName, userId |-> uid]
  ELSE IF role = "staff"
    THEN [role |-> "staff", userName |-> userName, userId |-> uid]
  ELSE IF role = "parent"
    THEN [role |-> "parent", userName |-> userName, userId |-> uid]
  ELSE NoLoginResult

\* AppNavigator line 46
validRoles == {"admin", "staff", "parent"}

\* AppNavigator lines 28-60: the role and name of a user, or an error
getUserNavigationData(uid) ==
  IF uid \notin DOMAIN users
    THEN Threw("User record not found in database. Please contact admin.")
  ELSE IF users[uid].role \notin validRoles
    THEN Threw("Invalid role. Please contact admin.")
  ELSE Returned([role |-> users[uid].role,
                 userName |-> OrElse(users[uid].name, "User"),
                 userId |-> uid])

\* lines 495-506: what onLogin does with the result of handleLogin
AppAfter(result) ==
  IF result # NoLoginResult
    THEN [mode |-> IF result.role = "admin" THEN "admin"
                   ELSE IF result.role = "staff" THEN "staff"
                   ELSE "parent",
          userName |-> result.userName,
          userRole |-> result.role,
          userId |-> result.userId]
    ELSE app

\* the LoginScreen is rendered in mode "login" only
Mounted(mode, l) ==
  [a \in LoginAttempts |-> [l[a] EXCEPT !.mounted = @ /\ mode = "login"]]

\* the submission of the mounted LoginScreen is pending (isSubmitting)
IsSubmitting ==
  \E a \in LoginAttempts :
    logins[a].mounted /\ logins[a].pc \in {"signIn", "getDoc"}

\* LoginScreen lines 44-47, App lines 493-494, 348-350: the Log In button
onLogin(a, email, password) ==
  /\ app.mode = "login"
  /\ ~IsSubmitting
  /\ logins[a].pc = "none"
  /\ \A b \in LoginAttempts : b < a => logins[b].pc # "none"
  /\ logins' = [logins EXCEPT ![a] =
       [NoLogin EXCEPT !.pc = "signIn", !.email = email,
                       !.password = password, !.mounted = TRUE]]
  /\ UNCHANGED <<app, users>>

\* handleLogin returns and onLogin continues with its result
handleLoginReturns(a, at, result, push) ==
  /\ app' = AppAfter(result)
  /\ logins' = Mounted(app'.mode,
       [logins EXCEPT ![a] =
          [at EXCEPT !.pc = "done", !.result = result, !.push = push]])

\* lines 350-351, 395-403: sign-in resolves with the user, or rejects
signInWithEmailAndPassword(a) ==
  LET l == logins[a] IN
  /\ l.pc = "signIn"
  /\ \/ /\ l.email \in DOMAIN Accounts
        /\ Accounts[l.email].password = l.password
        /\ logins' = [logins EXCEPT ![a].pc = "getDoc",
                                    ![a].uid = Accounts[l.email].uid]
        /\ UNCHANGED app
     \/ /\ ~(l.email \in DOMAIN Accounts
             /\ Accounts[l.email].password = l.password)
        /\ handleLoginReturns(a, l, NoLoginResult, "none")
  /\ UNCHANGED users

\* line 367: the promise of registerForPushNotifications when handleLogin
\* returns: pending, or resolved with null already (not a device)
PushAtReturn == {"pending", "null"}

\* lines 355-394, 395-403: getDoc resolves or rejects, handleLogin returns
getUserDoc(a) ==
  LET l == logins[a] IN
  /\ l.pc = "getDoc"
  /\ \/ /\ l.uid \in DOMAIN users
        /\ \E push \in PushAtReturn :
             handleLoginReturns(a,
               [l EXCEPT !.exists = TRUE, !.userData = users[l.uid]],
               LoginResult(users[l.uid].role,
                           UserNameOf(users[l.uid], l.email), l.uid),
               push)
     \/ /\ l.uid \notin DOMAIN users
        /\ handleLoginReturns(a, l, NoLoginResult, "none")
     \/ /\ \E e \in StoreErrors : TRUE
        /\ handleLoginReturns(a, l, NoLoginResult, "none")
  /\ UNCHANGED users

\* a save of the token that replaces the document (setDoc)
SaveTokenOverwrites(userDoc, token) ==
  [name |-> "", role |-> "", pushToken |-> token]

\* registerForPushNotifications lines 115-127: updateDoc sets the token
SaveToken(userDoc, token) == [userDoc EXCEPT !.pushToken = token]

\* registerForPushNotifications lines 38-146 and App lines 367-376: the
\* promise settles; with a token, the token has been saved unless the save
\* failed
registerForPushNotifications(a) ==
  LET l == logins[a] IN
  /\ l.push = "pending"
  /\ \/ /\ logins' = [logins EXCEPT ![a].push = "token"]
        /\ \/ users' = [users EXCEPT ![l.uid] = SaveToken(@, "ExpoToken")]
           \/ /\ \E e \in StoreErrors : TRUE
              /\ UNCHANGED users
     \/ /\ logins' = [logins EXCEPT ![a].push = "null"]
        /\ UNCHANGED users
     \/ /\ logins' = [logins EXCEPT ![a].push = "rejected"]
        /\ UNCHANGED users
  /\ UNCHANGED app

\* line 508: the Register link of the LoginScreen
onGoRegister ==
  /\ app.mode = "login"
  /\ app' = [app EXCEPT !.mode = "register"]
  /\ logins' = Mounted("register", logins)
  /\ UNCHANGED users

\* line 521: the Log In link of the RegisterScreen
onGoLogin ==
  /\ app.mode = "register"
  /\ app' = [app EXCEPT !.mode = "login"]
  /\ UNCHANGED <<logins, users>>

\* lines 451-457
handleLogout ==
  /\ app.mode \in {"admin", "staff", "parent"}
  /\ app' = [mode |-> "login", userName |-> "", userRole |-> "parent",
             userId |-> ""]
  /\ UNCHANGED <<logins, users>>

notAppVars == <<serviceVars, screenVars, keyVars, created, otherVars>>

NextLogin ==
  \/ \E a \in LoginAttempts :
       \/ \E cr \in Credentials :
            onLogin(a, cr[1], cr[2]) /\ UNCHANGED notAppVars
       \/ signInWithEmailAndPassword(a) /\ UNCHANGED notAppVars
       \/ getUserDoc(a) /\ UNCHANGED notAppVars
       \/ registerForPushNotifications(a) /\ UNCHANGED notAppVars
  \/ onGoRegister /\ UNCHANGED notAppVars
  \/ onGoLogin /\ UNCHANGED notAppVars
  \/ handleLogout /\ UNCHANGED notAppVars

SpecLogin == Init /\ [][NextLogin]_vars

(***************************************************************************)
(* App: self-registration.                                                 *)
(***************************************************************************)
\* the email of an account that exists already, and a new one, as typed
AdminEmailTyped == <<"A","d","m","i","n","@","x">>
NewEmailTyped == <<"N","e","w","@","x">>
\* the emails of the accounts that exist before any registration
TakenEmails == {<<"a","d","m","i","n","@","x">>}

\* what the RegisterScreen is submitted with
RegisterData ==
  {[fullName |-> "Ann Lee", email |-> e, password |-> "Secret1!"] :
     e \in {AdminEmailTyped, NewEmailTyped}}

\* the uid the authentication service gives the account of an attempt
NewUid(r) == IF r = 1 THEN "U6" ELSE IF r = 2 THEN "U7" ELSE "U8"

\* the submission of the mounted RegisterScreen is pending (isSubmitting)
RegisterIsSubmitting ==
  \E r \in RegisterAttempts :
    registers[r].mounted /\ registers[r].pc \notin {"none", "done"}

\* the RegisterScreen is rendered in mode "register" only
RegisterMounted(mode, g) ==
  [r \in RegisterAttempts |-> [g[r] EXCEPT !.mounted = @ /\ mode = "register"]]

\* RegistrationScreen lines 31, 81-90, App lines 511-513, 406-410: the Create
\* Account button; the schema has made the email lower case
onRegister(r, data) ==
  /\ app.mode = "register"
  /\ ~RegisterIsSubmitting
  /\ registers[r].pc = "none"
  /\ \A q \in RegisterAttempts : q < r => registers[q].pc # "none"
  /\ registers' = [registers EXCEPT ![r] =
       [NoRegister EXCEPT !.pc = "createUser", !.fullName = data.fullName,
                          !.email = ToLowerCase(data.email),
                          !.password = data.password, !.mounted = TRUE]]
  /\ UNCHANGED <<app, logins, users, auth, clock>>

\* a catch block that reports success
CatchRegisterReturnsTrue(error) == TRUE

\* lines 434-442: the catch block alerts and returns false
CatchRegister(error) == FALSE

\* lines 513-518: handleRegister returns and onRegister continues
handleRegisterReturns(r, success) ==
  /\ app' = IF success THEN [app EXCEPT !.mode = "login"] ELSE app
  /\ registers' = RegisterMounted(app'.mode,
       [registers EXCEPT ![r].pc = "done", ![r].result = success])
  /\ logins' = Mounted(app'.mode, logins)

\* line 410: the account is created, or the call rejects
createUserWithEmailAndPassword(r) ==
  LET g == registers[r] IN
  /\ g.pc = "createUser"
  /\ \/ /\ g.email \notin TakenEmails \cup DOMAIN auth
        /\ auth' = Put(auth, g.email,
                       [uid |-> NewUid(r), password |-> g.password,
                        displayName |-> ""])
        /\ registers' = [registers EXCEPT ![r].pc = "updateProfile",
                                          ![r].uid = NewUid(r)]
        /\ UNCHANGED <<app, logins>>
     \/ /\ g.email \in TakenEmails \cup DOMAIN auth
        /\ handleRegisterReturns(r, CatchRegister("auth/email-already-in-use"))
        /\ UNCHANGED auth
     \/ /\ \E e \in StoreErrors :
             handleRegisterReturns(r, CatchRegister(e))
        /\ UNCHANGED auth
  /\ UNCHANGED <<users, clock>>

\* lines 415-417: the display name is set, or the call rejects
updateProfile(r) ==
  LET g == registers[r] IN
  /\ g.pc = "updateProfile"
  /\ \/ /\ auth' = [auth EXCEPT ![g.email].displayName = g.fullName]
        /\ registers' = [registers EXCEPT ![r].pc = "setDoc"]
        /\ UNCHANGED <<app, logins>>
     \/ /\ \E e \in StoreErrors :
             handleRegisterReturns(r, CatchRegister(e))
        /\ UNCHANGED auth
  /\ UNCHANGED <<users, clock>>

\* lines 422-429: the document setDoc writes
RegisteredUserDoc(g) ==
  [uid |-> g.uid, name |-> g.fullName, email |-> ToLowerCase(g.email),
   role |-> "parent", createdAt |-> clock, updatedAt |-> clock]

\* lines 422-433: the user document is written and handleRegister returns
\* true, or the call rejects
setUserDoc(r) ==
  LET g == registers[r] IN
  /\ g.pc = "setDoc"
  /\ \/ /\ users' = Put(users, g.uid, RegisteredUserDoc(g))
        /\ clock' = clock + 1
        /\ handleRegisterReturns(r, TRUE)
     \/ /\ \E e \in StoreErrors :
             handleRegisterReturns(r, CatchRegister(e))
        /\ UNCHANGED <<users, clock>>
  /\ UNCHANGED auth

\* the two links between the screens, with the screens they unmount
goRegister ==
  /\ onGoRegister
  /\ UNCHANGED <<auth, registers, clock>>

goLogin ==
  /\ onGoLogin
  /\ registers' = RegisterMounted("login", registers)
  /\ UNCHANGED <<auth, clock>>

notRegisterVars ==
  <<children, pc, op, input, docId, snap, attempts, calls, hist, last, tally,
    created, screenVars, keyVars, attendanceVars, sendVars, pushReg, pairVars>>

NextRegister ==
  \/ \E r \in RegisterAttempts :
       \/ \E data \in RegisterData :
            onRegister(r, data) /\ UNCHANGED notRegisterVars
       \/ createUserWithEmailAndPassword(r) /\ UNCHANGED notRegisterVars
       \/ updateProfile(r) /\ UNCHANGED notRegisterVars
       \/ setUserDoc(r) /\ UNCHANGED notRegisterVars
  \/ goRegister /\ UNCHANGED notRegisterVars
  \/ goLogin /\ UNCHANGED notRegisterVars

SpecRegister == Init /\ [][NextRegister]_vars

(***************************************************************************)
(* AttendanceScreen.                                                       *)
(***************************************************************************)
\* the number of markAttendance calls
MaxMarks == 3

\* the dates new Date().toISOString().split("T")[0] returns during a session
Dates == <<<<"2","0","2","5","-","1","1","-","0","3">>,
           <<"2","0","2","5","-","1","1","-","0","4">>>>

Unknown == <<"U","n","k","n","o","w","n">>

\* the children collection the screen reads: a record addChildUnique made,
\* and one that updateChild has replaced and that has no name any more
Enrolled ==
  Put(Put(<<>>, JeanLucKey,
          [parentId |-> P1, name |-> JeanLucHyphen, dateOfBirth |-> Dob2020,
           allergies |-> <<>>, createdAt |-> 1, updatedAt |-> 1]),
      DocId[<<P1, JeanLucHyphen, Dob2021>>],
      [allergies |-> <<Nuts>>, updatedAt |-> 3])

InitEnrolled == children = Enrolled /\ clock = 4

InitAttendance ==
  InitEnrolled /\ InitCallers /\ InitKeyIdle /\ InitApp /\ InitOther

\* line 83: data.name || "Unknown"
ChildNameOf(data) ==
  IF "name" \in DOMAIN data /\ data.name # <<>> THEN data.name ELSE Unknown

\* lines 70-106: getDocs resolves and every child starts as absent, or it
\* rejects and the list stays empty
fetchChildren ==
  /\ loading
  /\ \/ attendanceRecords' =
          [id \in DOMAIN children |->
             [childId |-> id, childName |-> ChildNameOf(children[id]),
              status |-> "absent", timestamp |-> markCalls]]
     \/ /\ \E e \in StoreErrors : TRUE
        /\ UNCHANGED attendanceRecords
  /\ loading' = FALSE
  /\ UNCHANGED <<attendance, today, writes, markCalls, marks>>

\* a document id that leaves out the date
AttendanceDocIdOfChild(childId, date) == childId

\* line 131: `${childId}_${today}`
AttendanceDocId(childId, date) == childId \o <<"_">> \o date

\* setDoc with { merge: true }: the fields given replace those of the
\* document, the others stay
Merge(store, id, fields) ==
  IF id \in DOMAIN store
    THEN [store EXCEPT ![id] =
            [k \in DOMAIN fields \cup DOMAIN store[id] |->
               IF k \in DOMAIN fields THEN fields[k] ELSE store[id][k]]]
    ELSE Put(store, id, fields)

\* lines 114-144: the local state is updated, then setDoc is called
markAttendance(childId, status) ==
  /\ ~loading
  /\ markCalls < MaxMarks
  /\ childId \in DOMAIN attendanceRecords
  /\ markCalls' = markCalls + 1
  /\ LET currentRecord == attendanceRecords[childId]
         updatedRecord == [currentRecord EXCEPT !.status = status,
                                                !.timestamp = markCalls']
     IN /\ attendanceRecords' =
             [attendanceRecords EXCEPT ![childId] = updatedRecord]
        /\ writes' = Append(writes,
             [id |-> AttendanceDocId(childId, Dates[today]),
              fields |-> [childId |-> childId,
                          childName |-> currentRecord.childName,
                          status |-> status,
                          timestamp |-> updatedRecord.timestamp,
                          date |-> Dates[today]]])
  /\ marks' = Put(marks, <<childId, today>>,
                  [status |-> status,
                   rejected |-> <<childId, today>> \in DOMAIN marks
                                /\ marks[<<childId, today>>].rejected])
  /\ UNCHANGED <<attendance, loading, today>>

\* lines 242-248: the switch of a child's row
onToggle(childId) ==
  /\ childId \in DOMAIN attendanceRecords
  /\ markAttendance(childId,
       IF attendanceRecords[childId].status = "present"
         THEN "absent" ELSE "present")

\* the child and date index a write is for
PairOf(w) ==
  <<w.fields.childId,
    CHOOSE k \in DOMAIN Dates : Dates[k] = w.fields.date>>

\* lines 133-150: the oldest setDoc settles: the store has merged the
\* fields, or the call rejects and the catch block alerts
setDocSettles ==
  /\ writes # <<>>
  /\ writes' = Tail(writes)
  /\ \/ /\ attendance' = Merge(attendance, Head(writes).id, Head(writes).fields)
        /\ UNCHANGED marks
     \/ /\ \E e \in StoreErrors : TRUE
        /\ marks' = [marks EXCEPT ![PairOf(Head(writes))].rejected = TRUE]
        /\ UNCHANGED attendance
  /\ UNCHANGED <<attendanceRecords, loading, today, markCalls>>

\* the date changes while the screen is open
midnight ==
  /\ today < Len(Dates)
  /\ today' = today + 1
  /\ UNCHANGED <<attendance, attendanceRecords, loading, writes, markCalls,
                 marks>>

notAttendanceVars ==
  <<serviceVars, created, screenVars, keyVars, appVars, registerVars,
    sendVars, pushReg, pairVars>>

NextAttendance ==
  \/ fetchChildren /\ UNCHANGED notAttendanceVars
  \/ \E childId \in DOMAIN children :
       onToggle(childId) /\ UNCHANGED notAttendanceVars
  \/ setDocSettles /\ UNCHANGED notAttendanceVars
  \/ midnight /\ UNCHANGED notAttendanceVars

SpecAttendance == InitAttendance /\ [][NextAttendance]_vars

(***************************************************************************)
(* sendPushNotification.                                                   *)
(***************************************************************************)
TokenPrefix ==
  <<"E","x","p","o","n","e","n","t","P","u","s","h","T","o","k","e","n","[">>

\* String.prototype.startsWith
StartsWith(str, prefix) ==
  /\ Len(str) >= Len(prefix)
  /\ SubSeq(str, 1, Len(prefix)) = prefix

\* the tokens callers pass: a token of the relay, the empty string, a token
\* of another service, and a prefix of the prefix
PushTokens ==
  {TokenPrefix \o <<"a","]">>, <<>>, <<"f","c","m",":","a">>,
   SubSeq(TokenPrefix, 1, 8)}

\* the receipts and bodies the relay answers with
Receipt(status) == JObject([status |-> JString(status)])
ErrorReceipt ==
  JObject([status |-> JString("error"), message |-> JString("DeviceNotRegistered")])
RelayResults ==
  {JObject([data |-> Receipt("ok")]),
   JObject([data |-> JArray(<<Receipt("ok")>>)]),
   JObject([data |-> ErrorReceipt]),
   JObject([data |-> JArray(<<ErrorReceipt, Receipt("ok")>>)]),
   JObject([data |-> JArray(<<>>)]),
   JObject([data |-> Receipt("queued")]),
   JObject([errors |-> JArray(<<JString("bad request")>>)]),
   JObject([data |-> JNull]),
   JNull}

\* a validation that lets every token through
AnyTokenValid(pushToken) == TRUE

\* line 53: the token is not empty and starts with the prefix
ValidToken(pushToken) ==
  ~(pushToken = <<>> \/ ~StartsWith(pushToken, TokenPrefix))

\* a property read v.key: a TypeError on null and undefined
Get(v, key) ==
  IF v.type \in {"null", "undefined"} THEN Threw("TypeError")
  ELSE IF v.type = "object" /\ key \in DOMAIN v.fields
    THEN Returned(v.fields[key])
  ELSE Returned(JUndefined)

\* the truth value of a value in a condition
Truthy(v) ==
  /\ v.type \notin {"null", "undefined"}
  /\ v.type = "string" => v.str # ""

\* lines 96-98: Array.isArray(result.data) ? result.data[0] : result.data
ReceiptOf(result) ==
  LET data == Get(result, "data") IN
  IF data.kind = "threw" THEN data
  ELSE IF data.value.type = "array"
    THEN Returned(IF data.value.items # <<>> THEN data.value.items[1]
                  ELSE JUndefined)
  ELSE data

\* receipt && receipt.status === status
HasStatus(receipt, status) ==
  Truthy(receipt) /\ Get(receipt, "status").value = JString(status)

\* lines 96-111: what the body of the try block returns for a result
CheckReceipt(result) ==
  LET receipt == ReceiptOf(result) IN
  IF receipt.kind = "threw" THEN receipt
  ELSE IF HasStatus(receipt.value, "ok") THEN Returned(TRUE)
  ELSE IF HasStatus(receipt.value, "error") THEN Returned(FALSE)
  ELSE Returned(FALSE)

\* lines 113-121: the catch block logs the error and returns false
CatchSend(outcome) ==
  IF outcome.kind = "threw" THEN Returned(FALSE) ELSE outcome

\* lines 43-56, 66-86: the token is checked and the request is sent
sendPushNotification(k, pushToken) ==
  /\ send[k].pc = "idle"
  /\ \A j \in SendCalls : j < k => send[j].pc = "done"
  /\ sends' = sends + 1
  /\ IF ValidToken(pushToken)
       THEN /\ send' = [send EXCEPT ![k] =
                 [NoSend EXCEPT !.pc = "fetch", !.pushToken = pushToken,
                                !.sent = TRUE]]
            /\ requests' = requests + 1
       ELSE /\ send' = [send EXCEPT ![k] =
                 [NoSend EXCEPT !.pc = "done", !.pushToken = pushToken,
                                !.result = CatchSend(Returned(FALSE))]]
            /\ UNCHANGED requests

\* line 79: fetch resolves with a response, or rejects
fetchSettles(k) ==
  /\ send[k].pc = "fetch"
  /\ \/ send' = [send EXCEPT ![k].pc = "json"]
     \/ send' = [send EXCEPT ![k].pc = "done",
                             ![k].response = [kind |-> "network error",
                                              result |-> JUndefined],
                             ![k].result =
                               CatchSend(Threw("Network request failed"))]
  /\ UNCHANGED <<sends, requests>>

\* lines 91-111: response.json() resolves with the body, or rejects
jsonSettles(k) ==
  /\ send[k].pc = "json"
  /\ \/ \E result \in RelayResults :
          send' = [send EXCEPT ![k].pc = "done",
                               ![k].response = [kind |-> "json",
                                                result |-> result],
                               ![k].result = CatchSend(CheckReceipt(result))]
     \/ send' = [send EXCEPT ![k].pc = "done",
                             ![k].response = [kind |-> "parse error",
                                              result |-> JUndefined],
                             ![k].result = CatchSend(Threw("SyntaxError"))]
  /\ UNCHANGED <<sends, requests>>

notSendVars ==
  <<serviceVars, created, screenVars, keyVars, appVars, registerVars,
    attendanceVars, pushReg, pairVars>>

NextSend ==
  \E k \in SendCalls :
    \/ \E pushToken \in PushTokens :
         sendPushNotification(k, pushToken) /\ UNCHANGED notSendVars
    \/ fetchSettles(k) /\ UNCHANGED notSendVars
    \/ jsonSettles(k) /\ UNCHANGED notSendVars

SpecSend == Init /\ [][NextSend]_vars

(***************************************************************************)
(* registerForPushNotifications, step by step.                             *)
(***************************************************************************)
\* the number of registerForPushNotifications calls
MaxPushCalls == 2

PermissionStatuses == {"granted", "denied", "undetermined"}
\* Constants.expoConfig?.extra?.eas?.projectId: undefined, or an id
ProjectIds == {"", "creche-app"}
\* the uids callers pass: a user with a document, one without, and none
PushUserIds == {"U1", "U5", ""}
ExpoPushToken == "ExponentPushToken[a]"

\* lines 137-145: the catch block logs, alerts and returns null
CatchPush(error) == Returned(Null)

\* the call returns
PushReturns(reg, outcome) ==
  pushReg' = [reg EXCEPT !.pc = "done", !.result = outcome]

\* lines 38-51: Device.isDevice; not on a device the call returns null
checkDevice(uid) ==
  /\ pushReg.pc \in {"idle", "done"}
  /\ pushReg.calls < MaxPushCalls
  /\ \E isDevice \in BOOLEAN :
       LET reg == [NoPushReg EXCEPT !.calls = pushReg.calls + 1,
                                    !.userId = uid,
                                    !.isDevice = isDevice,
                                    !.listeners = pushReg.listeners]
       IN IF ~isDevice
            THEN PushReturns(reg, Returned(Null))
            ELSE pushReg' = [reg EXCEPT !.pc = "getPermissions"]
  /\ UNCHANGED users

\* a registration that asks for permission every time
AlwaysAsk(existingStatus) == TRUE

\* line 62: existingStatus !== 'granted'
NeedsRequest(existingStatus) == existingStatus # "granted"

\* lines 58-62: getPermissionsAsync resolves with the status, or rejects
getPermissionsAsync ==
  /\ pushReg.pc = "getPermissions"
  /\ \/ \E status \in PermissionStatuses :
          pushReg' = [pushReg EXCEPT
            !.existingStatus = status,
            !.finalStatus = status,
            !.pc = IF NeedsRequest(status) THEN "requestPermissions"
                   ELSE "checkPermission"]
     \/ PushReturns(pushReg, CatchPush("getPermissionsAsync"))
  /\ UNCHANGED users

\* lines 63-64: requestPermissionsAsync resolves with the status, or rejects
requestPermissionsAsync ==
  /\ pushReg.pc = "requestPermissions"
  /\ \/ \E status \in PermissionStatuses :
          pushReg' = [pushReg EXCEPT !.asked = @ + 1,
                                     !.finalStatus = status,
                                     !.pc = "checkPermission"]
     \/ PushReturns([pushReg EXCEPT !.asked = @ + 1],
                    CatchPush("requestPermissionsAsync"))
  /\ UNCHANGED users

\* lines 68-107: permission denied returns null; on Android the channel is
\* configured; without a project id the call returns null
checkPermission ==
  /\ pushReg.pc = "checkPermission"
  /\ IF pushReg.finalStatus # "granted"
       THEN PushReturns(pushReg, Returned(Null))
       ELSE \/ \E projectId \in ProjectIds :
                 IF projectId = ""
                   THEN PushReturns([pushReg EXCEPT !.projectId = projectId],
                                    Returned(Null))
                   ELSE pushReg' = [pushReg EXCEPT !.projectId = projectId,
                                                   !.pc = "getToken"]
            \/ PushReturns(pushReg, CatchPush("setNotificationChannelAsync"))
  /\ UNCHANGED users

\* registerNotificationListeners (lines 153-174), then line 135
ReturnToken(reg) ==
  PushReturns([reg EXCEPT !.listeners = @ + 2], Returned(reg.token))

\* lines 107-114: getExpoPushTokenAsync resolves with the token, or rejects
getExpoPushTokenAsync ==
  /\ pushReg.pc = "getToken"
  /\ \/ LET reg == [pushReg EXCEPT !.fetched = TRUE,
                                    !.token = ExpoPushToken]
        IN IF reg.userId # "" /\ reg.token # ""
             THEN pushReg' = [reg EXCEPT !.pc = "save"]
             ELSE ReturnToken(reg)
     \/ PushReturns([pushReg EXCEPT !.fetched = TRUE],
                    CatchPush("getExpoPushTokenAsync"))
  /\ UNCHANGED users

\* lines 115-135: updateDoc saves the token, or it fails and the error is
\* logged; the token is returned
updateDoc ==
  /\ pushReg.pc = "save"
  /\ \/ /\ pushReg.userId \in DOMAIN users
        /\ users' = [users EXCEPT ![pushReg.userId] =
                       SaveToken(@, pushReg.token)]
        /\ ReturnToken([pushReg EXCEPT !.wrote = TRUE, !.saved = TRUE])
     \/ /\ pushReg.userId \notin DOMAIN users
        /\ UNCHANGED users
        /\ ReturnToken([pushReg EXCEPT !.wrote = TRUE])
     \/ /\ \E e \in StoreErrors : TRUE
        /\ UNCHANGED users
        /\ ReturnToken([pushReg EXCEPT !.wrote = TRUE])

notPushVars ==
  <<serviceVars, created, screenVars, keyVars, app, logins, registerVars,
    attendanceVars, sendVars, pairVars>>

NextPush ==
  \/ \E uid \in PushUserIds : checkDevice(uid) /\ UNCHANGED notPushVars
  \/ getPermissionsAsync /\ UNCHANGED notPushVars
  \/ requestPermissionsAsync /\ UNCHANGED notPushVars
  \/ checkPermission /\ UNCHANGED notPushVars
  \/ getExpoPushTokenAsync /\ UNCHANGED notPushVars
  \/ updateDoc /\ UNCHANGED notPushVars

SpecPush == Init /\ [][NextPush]_vars

(***************************************************************************)
(* Two calls of childDocId, on any two tuples.                             *)
(***************************************************************************)
\* parent ids, also ones that hold or end in underscores
PairParentIds ==
  {P1, <<"P","1","_">>, <<"P","1","_","_">>, <<"P","1","_","_","a">>, <<>>}
\* names, also ones that normalize to the same and to the empty string
PairNames ==
  {<<>>, <<"a">>, <<"A">>, <<"b">>, <<"-">>, <<"a","-","b">>,
   <<"a"," ","b">>, <<"a","_","b">>}
\* dates of birth, also ones that are no dates, and one with underscores
PairDobs == {Dob2020, <<>>, <<"b">>, <<"a","_","_","b">>}
PairInputs == [parentId : PairParentIds, name : PairNames, dob : PairDobs]

InitPairInput ==
  /\ keyInput \in PairInputs
  /\ keyOutput = NoKeyOutput
  /\ otherInput \in PairInputs
  /\ otherOutput = NoKeyOutput

InitPair ==
  InitChildren /\ InitApp /\ InitRegister /\ InitAttendanceScreen
    /\ InitSend /\ InitPushReg /\ InitPairInput

\* the functions are called with the arguments of the second call
applyOtherKeyFunctions ==
  /\ ~otherOutput.called
  /\ otherOutput' = KeyOutputOf(otherInput)
  /\ UNCHANGED otherInput

notPairVars ==
  <<serviceVars, created, screenVars, appVars, registerVars, attendanceVars,
    sendVars, pushReg>>

NextPair ==
  \/ applyKeyFunctions /\ UNCHANGED <<notPairVars, pairVars>>
  \/ applyOtherKeyFunctions /\ UNCHANGED <<notPairVars, keyVars>>

SpecPair == InitPair /\ [][NextPair]_vars

(***************************************************************************)
(* Properties of the records of the collection, under SpecLegacy.          *)
(***************************************************************************)
\* C16: every child record, whichever add-child entry point created it
\* (addChildUnique or addChild), has as its id the deterministic key of the
\* parentId, name and dateOfBirth it was created with.
C16_EveryRecordUnderItsKey ==
  \A id \in DOMAIN created :
    id = childDocId(created[id][1], created[id][2], created[id][3])

\* C17: once a child record exists, after any create attempts and child
\* updates it still exists under the same id with the same parentId and
\* dateOfBirth, and an update keeps the fields it does not name.
C17_RecordKeepsIdentity ==
  \A id \in DOMAIN created :
    /\ id \in DOMAIN children
    /\ {"parentId", "name", "dateOfBirth", "createdAt"}
         \subseteq DOMAIN children[id]
    /\ children[id].parentId = created[id][1]
    /\ children[id].dateOfBirth = created[id][3]

(***************************************************************************)
(* Properties of the login, under SpecLogin.                               *)
(***************************************************************************)
\* attempt a completes in this step: handleLogin returns, onLogin continues
Completes(a) == logins[a].pc # "done" /\ logins'[a].pc = "done"

\* C18: a login attempt starts in mode "login"; when it completes with the
\* user document read and a role of admin, staff or parent in it, the mode
\* becomes the dashboard of that role and userId, userName and userRole are
\* those of the login; when sign-in failed, the document is missing or could
\* not be read, or the role is another one, mode, userId, userName and
\* userRole stay as they were.
C18_LoginSetsDashboard ==
  [][\A a \in LoginAttempts :
       /\ (logins[a].pc = "none" /\ logins'[a].pc # "none")
            => app.mode = "login"
       /\ Completes(a) =>
            LET l == logins'[a]
                account == Accounts[l.email]
            IN /\ (l.exists /\ users[l.uid].role \in validRoles) =>
                    /\ app'.mode = users[l.uid].role
                    /\ app'.userRole = users[l.uid].role
                    /\ app'.userId = account.uid
                    /\ app'.userName = UserNameOf(users[l.uid], l.email)
                    /\ getUserNavigationData(l.uid).kind = "returned"
                    /\ getUserNavigationData(l.uid).value.role = app'.userRole
               /\ (l.exists /\ app' # app) =>
                    getUserNavigationData(l.uid).kind = "returned"
               /\ account.password # l.password => app' = app
               /\ account.uid \notin DOMAIN users => app' = app
               /\ (l.exists /\ users[l.uid].role \notin validRoles) => app' = app
               /\ ~l.exists => app' = app]_vars

\* a first login of the user with role "teacher" left the app on the login
\* screen, and a second login, of the staff member, is on the staff dashboard
C18_Witness ==
  /\ logins[1].pc = "done" /\ logins[1].email = "teacher@x"
  /\ logins[1].exists
  /\ logins[2].pc = "done" /\ logins[2].email = "staff@x"
  /\ app = [mode |-> "staff", userName |-> "Sam", userRole |-> "staff",
            userId |-> "U2"]

\* what handleLogin returns for a user document as it was at the start
ResultOfAccount(email) ==
  LET uid == Accounts[email].uid IN
  LoginResult(InitUsers[uid].role, UserNameOf(InitUsers[uid], email), uid)

\* C19: the push registration never blocks or changes a login: the result of
\* a completed attempt that read the user document is the one for the role
\* and name of that user, whatever the state of the registration of this or
\* an earlier attempt (pending, token, null, rejected); the registration
\* never changes the role or name of a user; a step in which a registration
\* settles changes neither the App state nor the result of a login.
C19_PushNeverBlocksLogin ==
  [][/\ \A u \in DOMAIN InitUsers :
          /\ users'[u].role = InitUsers[u].role
          /\ users'[u].name = InitUsers[u].name
     /\ \A a \in LoginAttempts :
          /\ (Completes(a) /\ logins'[a].exists) =>
               /\ logins'[a].result = ResultOfAccount(logins'[a].email)
               /\ app' = AppAfter(ResultOfAccount(logins'[a].email))
          /\ logins'[a].push # logins[a].push /\ logins[a].push = "pending" =>
               /\ app' = app
               /\ \A b \in LoginAttempts :
                    /\ logins'[b].result = logins[b].result
                    /\ logins'[b].pc = logins[b].pc]_vars

\* the administrator logged in, the registration saved a token, they logged
\* out and logged in again, with the same result, while the second
\* registration is rejected
C19_Witness ==
  /\ logins[1].pc = "done" /\ logins[1].email = "admin@x"
  /\ logins[1].push = "token" /\ users["U1"].pushToken # ""
  /\ logins[2].pc = "done" /\ logins[2].email = "admin@x"
  /\ logins[2].push = "rejected"
  /\ logins[2].result = logins[1].result
  /\ logins[1].result.role = "admin"
  /\ app.mode = "admin"

\* C20: registerForPushNotifications is invoked only in login attempts for
\* which handleLogin returns a result that is not null.
C20_PushOnlyAfterSuccessfulLogin ==
  \A a \in LoginAttempts :
    logins[a].push # "none" => logins[a].result # NoLoginResult

(***************************************************************************)
(* Properties of the self-registration, under SpecRegister.                *)
(***************************************************************************)
\* attempt r completes in this step: handleRegister returns
Registered(r) == registers[r].pc # "done" /\ registers'[r].pc = "done"

\* C21: every user document written by self-registration has role "parent";
\* a registration attempt starts in mode "register"; when handleRegister
\* returns true the mode becomes "login", and then the auth account, its
\* display name and the user document have all been written; when it returns
\* false the App state stays as it was; no other step of a registration
\* changes the App state.
C21_RegisterSwitchesToLoginIffTrue ==
  [][/\ \A u \in DOMAIN users' \ DOMAIN InitUsers : users'[u].role = "parent"
     /\ \A r \in RegisterAttempts :
          LET g == registers'[r] IN
          /\ (registers[r].pc = "none" /\ g.pc # "none")
               => app.mode = "register"
          /\ (Registered(r) /\ g.result) =>
               /\ app'.mode = "login"
               /\ g.email \in DOMAIN auth'
               /\ auth'[g.email].uid = g.uid
               /\ auth'[g.email].displayName = g.fullName
               /\ g.uid \in DOMAIN users'
               /\ users'[g.uid].name = g.fullName
          /\ (Registered(r) /\ ~g.result) => app' = app
          /\ (g.pc # registers[r].pc /\ g.pc # "done") => app' = app]_vars

\* a first registration with the email of an existing account failed and
\* left the app on the register screen; a second one succeeded: the account
\* and the document of a parent exist and the app shows the login screen
C21_Witness ==
  /\ registers[1].pc = "done" /\ ~registers[1].result
  /\ registers[1].email \in TakenEmails
  /\ registers[2].pc = "done" /\ registers[2].result
  /\ "U7" \in DOMAIN users /\ users["U7"].role = "parent"
  /\ users["U7"].email = <<"n","e","w","@","x">>
  /\ app.mode = "login"

(***************************************************************************)
(* Properties of the attendance, under SpecAttendance.                     *)
(***************************************************************************)
\* the children marked in this session
Marked == {p[1] : p \in DOMAIN marks}

\* the date index of the last markAttendance call for a child
LastMarkedOn(c) ==
  CHOOSE k \in DOMAIN Dates :
    /\ <<c, k>> \in DOMAIN marks
    /\ \A j \in DOMAIN Dates : <<c, j>> \in DOMAIN marks => j <= k

\* C22: when every markAttendance call has finished, the local status of
\* each child marked in this session is the status in the attendance
\* document of the child and the date it was marked on.
C22_LocalStatusIsStoredStatus ==
  writes = <<>> =>
    \A c \in Marked :
      LET id == c \o <<"_">> \o Dates[LastMarkedOn(c)] IN
      /\ id \in DOMAIN attendance
      /\ attendance[id].status = attendanceRecords[c].status

\* the writes not yet settled for the document of a child and date
PendingFor(p) == {i \in DOMAIN writes : PairOf(writes[i]) = p}

\* C23: the attendance documents are keyed childId_date, so there is at
\* most one per child and date; and once the writes for a child and date
\* have all been applied, its document holds the status of the last call.
C23_OneDocumentPerChildAndDay ==
  /\ \A d \in DOMAIN attendance :
       d = attendance[d].childId \o <<"_">> \o attendance[d].date
  /\ \A d1, d2 \in DOMAIN attendance :
       (attendance[d1].childId = attendance[d2].childId
        /\ attendance[d1].date = attendance[d2].date) => d1 = d2
  /\ \A p \in DOMAIN marks :
       (PendingFor(p) = {} /\ ~marks[p].rejected) =>
          LET id == AttendanceDocId(p[1], Dates[p[2]]) IN
          /\ id \in DOMAIN attendance
          /\ attendance[id].status = marks[p].status

\* a child was marked present, absent and present again on one date and all
\* three writes were applied: one document, holding "present"
C23_Witness ==
  /\ markCalls = 3 /\ writes = <<>> /\ today = 1
  /\ DOMAIN marks = {<<JeanLucKey, 1>>}
  /\ ~marks[<<JeanLucKey, 1>>].rejected
  /\ DOMAIN attendance = {JeanLucKey \o <<"_">> \o Dates[1]}
  /\ attendance[JeanLucKey \o <<"_">> \o Dates[1]].status = "present"

(***************************************************************************)
(* Properties of sendPushNotification, under SpecSend.                     *)
(***************************************************************************)
\* the body of a response holds a receipt, alone or first in a list, whose
\* status is the given one
ReceiptStatusIs(response, status) ==
  /\ response.kind = "json"
  /\ response.result.type = "object"
  /\ "data" \in DOMAIN response.result.fields
  /\ LET data == response.result.fields["data"]
         first == IF data.type = "array" /\ data.items # <<>>
                    THEN data.items[1] ELSE data
     IN /\ first.type = "object"
        /\ "status" \in DOMAIN first.fields
        /\ first.fields["status"] = JString(status)

\* C24: sendPushNotification never throws; it returns true only when a
\* request was sent and the receipt of the relay has status "ok", and then
\* it does; for an empty token or one that does not start with
\* "ExponentPushToken[" it returns false and no request is sent; it returns
\* false on an error receipt, a body of another shape, and a network or
\* parse exception.
C24_SendReturnsTrueOnlyOnOk ==
  /\ requests = Cardinality({k \in SendCalls : send[k].sent})
  /\ \A k \in SendCalls :
       LET call == send[k] IN
       call.pc = "done" =>
         /\ call.result.kind = "returned"
         /\ call.result.value \in BOOLEAN
         /\ call.result.value <=> ReceiptStatusIs(call.response, "ok")
         /\ call.result.value => call.sent
         /\ (call.pushToken = <<>>
              \/ ~StartsWith(call.pushToken, TokenPrefix)) =>
                /\ call.result.value = FALSE
                /\ ~call.sent
         /\ ReceiptStatusIs(call.response, "error") =>
              call.result.value = FALSE
         /\ call.response.kind \in {"network error", "parse error"} =>
              call.result.value = FALSE

\* a call with a token of another service returned false and sent nothing,
\* and a call with a token of the relay got a list with an "ok" receipt and
\* returned true
C24_Witness ==
  /\ send[1].pc = "done" /\ send[1].pushToken = <<"f","c","m",":","a">>
  /\ send[1].result = Returned(FALSE) /\ requests = 1
  /\ send[2].pc = "done"
  /\ send[2].response.kind = "json"
  /\ ReceiptStatusIs(send[2].response, "ok")
  /\ send[2].response.result.fields["data"].type = "array"
  /\ send[2].result = Returned(TRUE)

(***************************************************************************)
(* Properties of registerForPushNotifications, under SpecPush.             *)
(***************************************************************************)
\* C25: registerForPushNotifications returns null, and has neither fetched
\* a token nor written to the store, when it is not on a device, when the
\* permission is not granted after at most one request, or when no project
\* id is configured; it asks for permission only if it was not granted
\* already, and at most once; once a token is obtained it returns the token,
\* also when saving it failed; and the store changes only when a token is
\* saved.
C25_RegistrationReturnsNullOrToken ==
  [][LET reg == pushReg' IN
     /\ reg.asked <= 1
     /\ reg.asked = 1 => reg.existingStatus \in PermissionStatuses \ {"granted"}
     /\ (reg.pc = "checkPermission" /\ reg.existingStatus # "granted")
          => reg.asked = 1
     /\ reg.fetched =>
          (reg.isDevice /\ reg.finalStatus = "granted" /\ reg.projectId # "")
     /\ reg.wrote => (reg.fetched /\ reg.token # "")
     /\ users' # users =>
          /\ reg.saved /\ reg.token = ExpoPushToken
          /\ users'[reg.userId].pushToken = reg.token
     /\ reg.pc = "done" =>
          /\ reg.result.kind = "returned"
          /\ (~reg.isDevice
               \/ (reg.finalStatus \in PermissionStatuses \ {"granted"})
               \/ reg.projectId = "") =>
                 /\ reg.result.value = Null
                 /\ ~reg.fetched /\ ~reg.wrote
                 /\ users' = users
          /\ reg.token # "" => reg.result.value = reg.token
          /\ reg.result.value # Null => reg.token = ExpoPushToken]_vars

\* a first call asked for the permission, which was denied, and returned
\* null; a second one found it granted, fetched the token, failed to save it
\* for a user without a document, and returned the token
C25_Witness ==
  /\ pushReg.calls = 2 /\ pushReg.pc = "done"
  /\ pushReg.userId = "U5" /\ pushReg.asked = 0
  /\ pushReg.wrote /\ ~pushReg.saved
  /\ pushReg.result = Returned(ExpoPushToken)
  /\ users = InitUsers

(***************************************************************************)
(* Properties of AddChildScreen.handleSubmit, under SpecScreen.            *)
(***************************************************************************)
\* the screen of s starts an addChildUnique call in this step
StartsCreate(s) == op[s] # "create" /\ op'[s] = "create"

\* the addChildUnique call of the screen of s ends by throwing in this step
CreateFails(s) ==
  /\ op[s] = "create" /\ op'[s] = "none"
  /\ last'.caller = s /\ last'.result.kind = "threw"

\* C26: handleSubmit calls addChildUnique only when the child name is not
\* blank, the date of birth is a valid YYYY-MM-DD date, a parent is selected
\* if the user is an admin, and isDuplicate is false, and it passes the
\* fields of the form; a submit that does not meet this starts no create;
\* after a create that failed the fields of the form are as they were and
\* submitting is false again.
C26_SubmitOnlyValidForm ==
  [][\A s \in Callers :
       /\ StartsCreate(s) =>
            /\ Trim(childName[s]) # <<>>
            /\ validateDate(dateOfBirth[s])
            /\ userRole(s) = "admin" => selectedParentId[s] # <<>>
            /\ ~isDuplicate[s]
            /\ ~submitting[s] /\ submitting'[s]
            /\ input'[s].name = childName[s]
            /\ input'[s].dateOfBirth = dateOfBirth[s]
            /\ input'[s].parentId = ParentIdOf(s)
       /\ CreateFails(s) =>
            /\ submitting[s] /\ ~submitting'[s]
            /\ childName'[s] = childName[s]
            /\ dateOfBirth'[s] = dateOfBirth[s]
            /\ allergiesInput'[s] = allergiesInput[s]
            /\ selectedParentId'[s] = selectedParentId[s]]_vars

\* a submit with a malformed date of birth was refused with an error, and
\* the create of another screen failed and left its form filled in
C26_Witness ==
  \E s, t \in Callers :
    /\ dateOfBirth[s] = BadDob /\ "dateOfBirth" \in errors[s]
    /\ op[s] = "none" /\ ~submitting[s]
    /\ last.op = "create" /\ last.caller = t /\ last.result.kind = "threw"
    /\ ~submitting[t] /\ childName[t] = last.input.name
    /\ childName[t] # <<>> /\ dateOfBirth[t] = last.input.dateOfBirth

(***************************************************************************)
(* Properties of childDocId on two tuples, under SpecPair.                 *)
(***************************************************************************)
NoUnderscore(str) == \A i \in DOMAIN str : str[i] # "_"

\* C27: for dates of birth without an underscore and any parent ids, two
\* calls of childDocId return the same key only if their parentId, their
\* normalized name and their dateOfBirth are equal.
C27_KeyIsInjective ==
  (/\ keyOutput.called /\ otherOutput.called
   /\ NoUnderscore(keyInput.dob) /\ NoUnderscore(otherInput.dob)
   /\ keyOutput.docId = otherOutput.docId) =>
     /\ keyInput.parentId = otherInput.parentId
     /\ keyOutput.normalized = otherOutput.normalized
     /\ keyInput.dob = otherInput.dob

\* two names of the same parent, whose id holds "__", give one key, and
\* they are the same name once normalized
C27_Witness ==
  /\ keyOutput.called /\ otherOutput.called
  /\ keyInput.parentId = <<"P","1","_","_","a">>
  /\ keyInput.name = <<"a","-","b">> /\ otherInput.name = <<"a"," ","b">>
  /\ NoUnderscore(keyInput.dob) /\ NoUnderscore(otherInput.dob)
  /\ keyOutput.docId = otherOutput.docId

=============================================================================
